---- MODULE Spec2Model ----
(***************************************************************************)
(* Semantic-search plugin: the similarity engine (vector-service.js), the  *)
(* embedding client and its normalizer (embedding-service.js), the search  *)
(* orchestrator (search-service.js) and the write hook                     *)
(* (processDocumentEmbedding), modelled as state machines.                 *)
(*                                                                         *)
(* Conventions.                                                            *)
(*  - A JavaScript value that may be null/undefined is an "optional":      *)
(*    None is <<>> and Some(x) is <<x>>.                                   *)
(*  - A JavaScript call that may throw returns [threw, value, error].      *)
(*  - A similarity score x is a real in [-1, 1] of the form                *)
(*    dot / (sqrt(mA) * sqrt(mB)).  It is kept exactly as the fraction     *)
(*    n / d = x * |x| (n = dot * |dot|, d = mA * mB).  x |-> x * |x| is    *)
(*    strictly increasing, so comparing the fractions compares the scores. *)
(*    The score NaN (0 / 0) is kept apart: every comparison with it is     *)
(*    false, as in IEEE arithmetic.                                        *)
(***************************************************************************)
EXTENDS Integers, Sequences, FiniteSets, TLC

VARIABLES
    vectorA, vectorB, similarity,                 \* one calculateCosineSimilarity call
    rankQuery, rankDocuments, rankOptions, scoredResults,  \* one searchSimilar call
    openai,          \* the provider handle of the embedding service, None before init
    store,           \* the documents of each collection, in the store's order
    call,            \* the semanticSearch / multiContentTypeSearch call in progress
    pc,              \* per sub-search: "embedding", "finding" or "done"
    embedded,        \* per sub-search: the settlement of its generateEmbedding
    settled,         \* per sub-search: the settlement of its semanticSearch
    searchResults,   \* per sub-search: the settlement of its element of searchPromises
    providerCalls,   \* per sub-search: the provider requests issued
    findManyCalls,   \* the findMany calls issued, in order
    response,        \* the settlement of the call
    initRan,         \* the best init() so far: "never", "no key" or "key"
    embedCall,       \* the generateEmbedding / generateBatchEmbeddings call in progress
    groupStart,      \* the loop variable i of generateBatchEmbeddings
    items,           \* the generateEmbedding invocations of the current group
    batchResults,    \* the results array of generateBatchEmbeddings
    requests,        \* the inputs of the provider requests the call has issued
    embedResponse,   \* the settlement of the call
    overtaken,       \* has an item settled before an earlier item of its group
    normInput, normOutput,    \* one preprocessText call
    hookEvent,       \* the event handed to processDocumentEmbedding
    hookData,        \* event.params.data, the payload the store will write
    hookPc,          \* "idle", "embedding", "returned" or "threw"
    hookEmbedCalls,  \* the texts the hook has handed to generateEmbedding
    hookRequests,    \* the inputs of the provider requests the hook has issued
    hookEmbedded,    \* the settlement of the hook's generateEmbedding call
    apiRequest,      \* the request a handler of the controller (or the call the
                     \* searchWithFilters helper) is answering
    apiAnswers,      \* the answers of the provider to the requests of the call
    apiFindMany,     \* the findMany calls of the call, in the order of its sub-searches
    apiResponse      \* the response of the handler, the settlement of the helper

cosVars == <<vectorA, vectorB, similarity>>
rankVars == <<rankQuery, rankDocuments, rankOptions, scoredResults>>
searchVars == <<openai, store, call, pc, embedded, settled, searchResults,
                providerCalls, findManyCalls, response>>
clientVars == <<initRan, embedCall, groupStart, items, batchResults, requests,
                embedResponse, overtaken>>
normVars == <<normInput, normOutput>>
hookVars == <<hookEvent, hookData, hookPc, hookEmbedCalls, hookRequests, hookEmbedded>>
apiVars == <<apiRequest, apiAnswers, apiFindMany, apiResponse>>
vars == <<cosVars, rankVars, searchVars, clientVars, normVars, hookVars, apiVars>>

---------------------------------------------------------------------------
(* Optionals and thrown errors *)

None == <<>>
Some(x) == <<x>>
Get(o) == o[1]

\* new Error(message): an error without a provider code
Error(message) == [code |-> "", message |-> message]

Return(v) == [threw |-> FALSE, value |-> Some(v), error |-> None]
Throw(e) == [threw |-> TRUE, value |-> None, error |-> Some(e)]

---------------------------------------------------------------------------
(* Bounds and input sets *)

\* largest number of documents the store returns to one searchSimilar call
MaxDocs == 3

\* vectors handed to calculateCosineSimilarity: absent, empty, and lengths 1..2
CosineVectors ==
    {None, Some(<<>>)}
        \cup {Some(<<x>>) : x \in -1..2}
        \cup {Some(<<x, y>>) : x \in -1..2, y \in -1..2}

\* query embeddings of searchSimilar (length 2, the zero vector included)
QueryEmbeddings == {<<1, 0>>, <<1, 1>>, <<-1, 1>>, <<0, 0>>}

\* the embedding field of a stored document: null, or a vector that may be of
\* the wrong length
StoredEmbeddings ==
    {None, Some(<<1>>), Some(<<1, 0>>), Some(<<1, 1>>), Some(<<2, 2>>), Some(<<0, 0>>)}

\* the limit option: negative, zero, small, and the default 10
Limits == {-1, 0, 1, 2, 10}

---------------------------------------------------------------------------
(* Scores *)

NaN == [nan |-> TRUE, n |-> 0, d |-> 1]
Zero == [nan |-> FALSE, n |-> 0, d |-> 1]
Abs(x) == IF x < 0 THEN -x ELSE x

\* dot / (sqrt(mA) * sqrt(mB)), 0 / 0 = NaN
Divide(dot, mA, mB) ==
    IF mA * mB = 0 THEN NaN
    ELSE [nan |-> FALSE, n |-> dot * Abs(dot), d |-> mA * mB]

\* x >= y on scores
ScoreGE(x, y) == ~x.nan /\ ~y.nan /\ x.n * y.d >= y.n * x.d
\* x > y on scores
ScoreGT(x, y) == ~x.nan /\ ~y.nan /\ x.n * y.d > y.n * x.d
\* x = y as numbers (NaN equals nothing)
ScoreEQ(x, y) == ~x.nan /\ ~y.nan /\ x.n * y.d = y.n * x.d

\* the thresholds of the model: -1, 0.1 (the default) and 0.5
Thresholds ==
    {[nan |-> FALSE, n |-> -1, d |-> 1],
     [nan |-> FALSE, n |-> 1, d |-> 100],
     [nan |-> FALSE, n |-> 1, d |-> 4]}

---------------------------------------------------------------------------
(* vector-service.js: calculateCosineSimilarity *)

RECURSIVE SumProducts(_, _, _)
\* the loop of calculateCosineSimilarity: sum of a[i] * b[i] for i in 1..k
SumProducts(a, b, k) ==
    IF k = 0 THEN 0 ELSE SumProducts(a, b, k - 1) + a[k] * b[k]

\* !vectorA || !vectorB || vectorA.length !== vectorB.length
invalidVectors(a, b) ==
    a = None \/ b = None \/ Len(Get(a)) # Len(Get(b))

\* a mutant of zeroMagnitude: only the first magnitude is tested
zeroMagnitude_OnlyA(mA, mB) == mA = 0

\* magnitudeA === 0 || magnitudeB === 0 (sqrt(m) = 0 exactly when m = 0)
zeroMagnitude(mA, mB) == mA = 0 \/ mB = 0

calculateCosineSimilarity(a, b) ==
    IF invalidVectors(a, b)
    THEN Throw(Error("Invalid vectors for similarity calculation"))
    ELSE LET va == Get(a)
             vb == Get(b)
             dotProduct == SumProducts(va, vb, Len(va))
             magnitudeA == SumProducts(va, va, Len(va))
             magnitudeB == SumProducts(vb, vb, Len(va))
         IN  IF zeroMagnitude(magnitudeA, magnitudeB) THEN Return(Zero)
             ELSE Return(Divide(dotProduct, magnitudeA, magnitudeB))

---------------------------------------------------------------------------
(* vector-service.js: searchSimilar *)

\* a stored document, as findMany returns it
Document(id, embedding) ==
    [documentId |-> id,
     embedding |-> embedding,
     embeddingMetadata |->
         IF embedding = None THEN None
         ELSE Some([model |-> "text-embedding-ada-002",
                    dimensions |-> Len(Get(embedding))])]

\* { ...doc, similarityScore: similarity }
Scored(doc, score) ==
    [documentId |-> doc.documentId,
     embedding |-> doc.embedding,
     embeddingMetadata |-> doc.embeddingMetadata,
     similarityScore |-> score]

\* a mutant of scoreDocument: a failed similarity computation is coerced to
\* the score 0 instead of dropping the document
scoreDocument_CoerceFailed(queryEmbedding, doc) ==
    IF doc.embedding = None THEN None
    ELSE LET r == calculateCosineSimilarity(Some(queryEmbedding), doc.embedding)
         IN  IF r.threw THEN Some(Scored(doc, Zero))
             ELSE Some(Scored(doc, Get(r.value)))

\* the callback of documents.map: null for a document without embedding or
\* whose similarity computation throws, else the scored document
scoreDocument(queryEmbedding, doc) ==
    IF doc.embedding = None THEN None
    ELSE LET r == calculateCosineSimilarity(Some(queryEmbedding), doc.embedding)
         IN  IF r.threw THEN None ELSE Some(Scored(doc, Get(r.value)))

\* documents.map(doc => ...)
mapDocuments(queryEmbedding, documents) ==
    [i \in 1..Len(documents) |-> scoreDocument(queryEmbedding, documents[i])]

\* result !== null && result.similarityScore >= threshold
keepResult(result, threshold) ==
    result # None /\ ScoreGE(Get(result).similarityScore, threshold)

RECURSIVE filterResults(_, _)
\* .filter(result => ...): the kept results, unwrapped, in their order
filterResults(mapped, threshold) ==
    IF mapped = <<>> THEN <<>>
    ELSE (IF keepResult(Head(mapped), threshold)
          THEN <<Get(Head(mapped))>> ELSE <<>>)
         \o filterResults(Tail(mapped), threshold)

\* the comparator (a, b) => b.similarityScore - a.similarityScore, by sign;
\* a NaN difference counts as 0
compareScores(a, b) ==
    IF ScoreGT(b.similarityScore, a.similarityScore) THEN 1
    ELSE IF ScoreGT(a.similarityScore, b.similarityScore) THEN -1
    ELSE 0

RECURSIVE insertSorted_Unstable(_, _)
\* a mutant of insertSorted: x goes before the elements it ties with
insertSorted_Unstable(sorted, x) ==
    IF sorted = <<>> THEN <<x>>
    ELSE IF compareScores(Head(sorted), x) < 0
         THEN <<Head(sorted)>> \o insertSorted_Unstable(Tail(sorted), x)
         ELSE <<x>> \o sorted

RECURSIVE insertSorted(_, _)
\* Array.prototype.sort is stable: x, which comes later in the input, goes
\* after every element the comparator does not order after it
insertSorted(sorted, x) ==
    IF sorted = <<>> THEN <<x>>
    ELSE IF compareScores(Head(sorted), x) <= 0
         THEN <<Head(sorted)>> \o insertSorted(Tail(sorted), x)
         ELSE <<x>> \o sorted

RECURSIVE sortByScore(_)
\* .sort((a, b) => b.similarityScore - a.similarityScore)
sortByScore(results) ==
    IF results = <<>> THEN <<>>
    ELSE insertSorted(sortByScore(SubSeq(results, 1, Len(results) - 1)),
                      results[Len(results)])

\* Array.prototype.slice(0, end): a negative end counts from the end of the
\* array
slice(seq, end) ==
    LET last == IF end < 0
                THEN (IF Len(seq) + end < 0 THEN 0 ELSE Len(seq) + end)
                ELSE (IF end > Len(seq) THEN Len(seq) ELSE end)
    IN  SubSeq(seq, 1, last)

\* the body of searchSimilar once findMany has returned `documents`
rankDocumentsOf(queryEmbedding, documents, options) ==
    IF Len(documents) = 0 THEN <<>>
    ELSE slice(sortByScore(filterResults(mapDocuments(queryEmbedding, documents),
                                         options.threshold)),
               options.limit)

---------------------------------------------------------------------------
(* embedding-service.js *)

\* A text is a sequence of one-character strings.
IsSpace(c) == c \in {" ", "\t", "\n"}

\* the least index >= from of character c in t, 0 if there is none
IndexOf(t, c, from) ==
    LET found == {i \in from..Len(t) : t[i] = c}
    IN  IF found = {} THEN 0
        ELSE CHOOSE i \in found : \A j \in found : i <= j

\* a mutant of replaceTags: only the first tag is replaced
replaceTags_FirstOnly(t) ==
    LET open == IndexOf(t, "<", 1)
        close == IF open = 0 THEN 0 ELSE IndexOf(t, ">", open + 1)
    IN  IF close = 0 THEN t
        ELSE SubSeq(t, 1, open - 1) \o <<" ">> \o SubSeq(t, close + 1, Len(t))

RECURSIVE replaceTags(_)
\* text.replace(/<[^>]*>/g, ' '): scanning from the left, a "<" with a ">"
\* somewhere after it starts a match that ends at the first such ">"; the
\* scan goes on after the match
replaceTags(t) ==
    LET open == IndexOf(t, "<", 1)
        close == IF open = 0 THEN 0 ELSE IndexOf(t, ">", open + 1)
    IN  IF close = 0 THEN t
        ELSE SubSeq(t, 1, open - 1) \o <<" ">>
                 \o replaceTags(SubSeq(t, close + 1, Len(t)))

\* cleanText.replace(/\s+/g, ' '): a whitespace character that follows a
\* whitespace character is dropped, the first of a run becomes a space
collapseWhitespace(t) ==
    LET kept == SelectSeq([i \in 1..Len(t) |-> i],
                          LAMBDA i : ~(i > 1 /\ IsSpace(t[i]) /\ IsSpace(t[i - 1])))
    IN  [k \in 1..Len(kept) |-> IF IsSpace(t[kept[k]]) THEN " " ELSE t[kept[k]]]

RECURSIVE trimStart(_)
trimStart(t) ==
    IF t # <<>> /\ IsSpace(Head(t)) THEN trimStart(Tail(t)) ELSE t

RECURSIVE trimEnd(_)
trimEnd(t) ==
    IF t # <<>> /\ IsSpace(t[Len(t)]) THEN trimEnd(SubSeq(t, 1, Len(t) - 1)) ELSE t

\* String.prototype.trim
trim(t) == trimEnd(trimStart(t))

\* const maxLength = 8000
maxLength == 8000

\* processedText.length < 10
minLength == 10

\* a mutant of preprocessText: a text of exactly maxLength characters is
\* truncated too
preprocessText_CutAtLimit(text) ==
    IF text = <<>> THEN <<>>
    ELSE LET normalizedText == trim(collapseWhitespace(replaceTags(text)))
         IN  IF Len(normalizedText) >= maxLength
             THEN SubSeq(normalizedText, 1, maxLength) \o <<".", ".", ".">>
             ELSE normalizedText

preprocessText(text) ==
    IF text = <<>> THEN <<>>
    ELSE LET cleanText == replaceTags(text)
             normalizedText == trim(collapseWhitespace(cleanText))
         IN  IF Len(normalizedText) > maxLength
             THEN SubSeq(normalizedText, 1, maxLength) \o <<".", ".", ".">>
             ELSE normalizedText

\* the errors generateEmbedding creates, by the names the specification
\* gives them
ProviderNotConfigured == Error("OpenAI client not initialized. Check your API key.")
InvalidInput == Error("Text is required for embedding generation")
TextTooShort == Error("Text too short for meaningful embedding")
QuotaExceeded == Error("OpenAI API quota exceeded")
InvalidCredentials == Error("Invalid OpenAI API key")
RateLimited == Error("OpenAI API rate limit exceeded")

\* a mutant of generateEmbeddingBegin: the text is validated before the
\* provider handle is looked at
generateEmbeddingBegin_TextFirst(client, text) ==
    IF text = <<>> \/ Len(trim(text)) = 0 THEN Throw(InvalidInput)
    ELSE IF client = None THEN Throw(ProviderNotConfigured)
    ELSE IF Len(preprocessText(text)) < minLength THEN Throw(TextTooShort)
    ELSE Return(preprocessText(text))

\* a mutant of generateEmbeddingBegin: no minimum length
generateEmbeddingBegin_NoMinimum(client, text) ==
    IF client = None THEN Throw(ProviderNotConfigured)
    ELSE IF text = <<>> \/ Len(trim(text)) = 0 THEN Throw(InvalidInput)
    ELSE Return(preprocessText(text))

\* generateEmbedding up to its provider call: the error it throws before the
\* call, or the processed text the call is issued with
generateEmbeddingBegin(client, text) ==
    IF client = None THEN Throw(ProviderNotConfigured)
    ELSE IF text = <<>> \/ Len(trim(text)) = 0 THEN Throw(InvalidInput)
    ELSE LET processedText == preprocessText(text)
         IN  IF Len(processedText) < minLength THEN Throw(TextTooShort)
             ELSE Return(processedText)

\* a mutant of mapProviderError: the rate limit is not told apart
mapProviderError_NoRateLimit(error) ==
    IF error.code = "insufficient_quota" THEN QuotaExceeded
    ELSE IF error.code = "invalid_api_key" THEN InvalidCredentials
    ELSE error

\* the catch block of generateEmbedding
mapProviderError(error) ==
    IF error.code = "insufficient_quota" THEN QuotaExceeded
    ELSE IF error.code = "invalid_api_key" THEN InvalidCredentials
    ELSE IF error.code = "rate_limit_exceeded" THEN RateLimited
    ELSE error

\* a mutant of requestsAfter: a request the provider refused for the rate
\* limit is issued once more
requestsAfter_RetryRateLimited(issued, processedText, answer) ==
    IF answer.threw /\ Get(answer.error).code = "rate_limit_exceeded"
    THEN Append(issued, processedText)
    ELSE issued

\* the provider requests issued once generateEmbedding has run from the
\* answer of the provider to its end: neither the code after the await nor
\* the catch block calls embeddings.create
requestsAfter(issued, processedText, answer) == issued

\* generateEmbedding from the answer of the provider on: `answer` is
\* Return(embedding), embedding an optional vector, or Throw(provider error)
generateEmbeddingEnd(text, processedText, answer) ==
    IF answer.threw THEN Throw(mapProviderError(Get(answer.error)))
    ELSE Return([embedding |-> Get(answer.value),
                 processedText |-> processedText,
                 originalLength |-> Len(text),
                 processedLength |-> Len(processedText)])

\* init(): the provider handle after init ran with apiKey, the value of
\* process.env.OPENAI_API_KEY (None when the variable is not set)
init(client, apiKey) ==
    IF apiKey = None \/ Get(apiKey) = "" THEN client ELSE Some("client")

\* const batchSize = 10
batchSize == 10

\* a mutant of batchOf: the group holds every text that is left
batchOf_Rest(texts, i) == SubSeq(texts, i + 1, Len(texts))

\* texts.slice(i, i + batchSize), i counting from 0
batchOf(texts, i) ==
    SubSeq(texts, i + 1,
           IF i + batchSize > Len(texts) THEN Len(texts) ELSE i + batchSize)

\* an invocation of generateEmbedding that has `begun`: rejected by the
\* error thrown before the provider call, or waiting with its request
suspendedItem(client, text, begun) ==
    [text |-> text,
     client |-> client,
     processedText |-> begun.value,
     answer |-> None,
     outcome |-> IF begun.threw THEN Some(begun) ELSE None]

\* this.generateEmbedding(text) up to its suspension: it is rejected at once
\* or waits for the answer of the provider to its request
beginItem(client, text) ==
    suspendedItem(client, text, generateEmbeddingBegin(client, text))

\* an item that waits for the provider
Pending(item) == item.outcome = None

\* the inputs of the provider requests a group of items has issued
requestsOf(promises) ==
    LET waiting == SelectSeq(promises, Pending)
    IN  [k \in 1..Len(waiting) |-> Get(waiting[k].processedText)]

\* a mutant of promiseAll: the values come in the reverse order
promiseAll_Reversed(promises) ==
    [k \in 1..Len(promises) |->
        Get(Get(promises[Len(promises) + 1 - k].outcome).value)]

\* the value of Promise.all(batchPromises) when every promise is fulfilled:
\* the values in the order of the promises
promiseAll(promises) ==
    [k \in 1..Len(promises) |-> Get(Get(promises[k].outcome).value)]

\* a mutant of batchCatch: the results gathered so far are returned
batchCatch_PartialResults(error, results) == Return(results)

\* the catch block of generateBatchEmbeddings: log and rethrow
batchCatch(error, results) == Throw(error)

\* batch.map(text => this.generateEmbedding(text))
batchPromises(client, batch) ==
    [k \in 1..Len(batch) |-> beginItem(client, batch[k])]

\* the first of the promises that are rejected at once, 0 if there is none
firstRejected(promises) ==
    LET rejected == {k \in 1..Len(promises) : ~Pending(promises[k])}
    IN  IF rejected = {} THEN 0
        ELSE CHOOSE k \in rejected : \A j \in rejected : k <= j

\* generateBatchEmbeddings once the promises of a group are created: those
\* rejected at once reject Promise.all, the first of them first
awaitGroup(promises, first, results, issued) ==
    [items |-> promises,
     requests |-> issued \o requestsOf(promises),
     response |->
         IF first = 0 THEN None
         ELSE Some(batchCatch(Get(Get(promises[first].outcome).error), results))]

\* generateBatchEmbeddings at the start of the group at index i
startGroup(client, texts, i, results, issued) ==
    awaitGroup(batchPromises(client, batchOf(texts, i)),
               firstRejected(batchPromises(client, batchOf(texts, i))),
               results, issued)

\* generateBatchEmbeddings when Promise.all of the group at index i is
\* fulfilled: the values are pushed, and the call returns unless a group is
\* left, which starts after the delay
endGroup(texts, i, results, promises) ==
    LET pushed == results \o promiseAll(promises)
    IN  [results |-> pushed,
         response |-> IF i + batchSize < Len(texts) THEN None
                      ELSE Some(Return(pushed))]

---------------------------------------------------------------------------
(* The write hook: processDocumentEmbedding and extractTextContent *)

\* A content type name "ns::rest" is the pair <<ns, rest>>, a name without
\* "::" a sequence of length 1.  A field value is [type, text]: text is the
\* string itself, or what JSON.stringify returns for an array or an object,
\* None when JSON.stringify throws (a circular structure) and for a number.

\* modelName.startsWith(ns + '::')
StartsWith(modelName, ns) == Len(modelName) > 1 /\ modelName[1] = ns

\* typeof model === 'string' ? model : model.uid
modelNameOf(model) == IF model.type = "string" THEN model.value ELSE model.uid

\* the content types the hook leaves alone
skippedModel(modelName) ==
    \/ StartsWith(modelName, "admin")
    \/ StartsWith(modelName, "plugin")
    \/ modelName = <<"plugin", "users-permissions.user">>

\* the field mappings registerEmbeddingLifecycles stores: the defaults
configuredFields ==
    [m \in {<<"api", "article.article">>, <<"api", "blog.blog">>} |->
        IF m = <<"api", "article.article">> THEN <<"title", "content", "summary">>
        ELSE <<"title", "body", "excerpt">>]

\* contentTypes[modelName] || [...]
textFieldsOf(modelName) ==
    IF modelName \in DOMAIN configuredFields THEN configuredFields[modelName]
    ELSE <<"title", "name", "content", "body", "summary", "description", "excerpt">>

\* if (data[field]): the field is there and its value is truthy
truthyField(data, field) ==
    /\ field \in DOMAIN data
    /\ data[field].type = "string" => data[field].text # Some(<<>>)

\* what one field adds to textContent: the string or the JSON text, and a
\* space; nothing for a missing, empty or other value; JSON.stringify may
\* throw
fieldText(data, field) ==
    IF ~truthyField(data, field) THEN Return(<<>>)
    ELSE IF data[field].type = "string" THEN Return(Get(data[field].text) \o <<" ">>)
    ELSE IF data[field].type \in {"array", "object"}
    THEN IF data[field].text = None
         THEN Throw(Error("Converting circular structure to JSON"))
         ELSE Return(Get(data[field].text) \o <<" ">>)
    ELSE Return(<<>>)

\* textContent after the field and the fields that follow it
appendText(first, rest) ==
    IF first.threw THEN first
    ELSE IF rest.threw THEN rest
    ELSE Return(Get(first.value) \o Get(rest.value))

RECURSIVE concatFields(_, _)
\* textFields.forEach(field => ...)
concatFields(data, fields) ==
    IF fields = <<>> THEN Return(<<>>)
    ELSE appendText(fieldText(data, Head(fields)), concatFields(data, Tail(fields)))

\* return textContent.trim()
trimmedText(textContent) ==
    IF textContent.threw THEN textContent ELSE Return(trim(Get(textContent.value)))

\* extractTextContent(data, modelName, strapi); data is None when the event
\* holds no payload, and reading a field of it throws
extractTextContent(data, modelName) ==
    IF data = None THEN Throw(Error("Cannot read properties of undefined"))
    ELSE trimmedText(concatFields(Get(data), textFieldsOf(modelName)))

\* a mutant of insufficientText: only the empty text is skipped
insufficientText_EmptyOnly(textContent) == textContent = <<>>

\* !textContent || textContent.trim().length < 10
insufficientText(textContent) ==
    textContent = <<>> \/ Len(trim(textContent)) < 10

\* a mutant of hookCatch: the error is thrown on
hookCatch_Rethrow(error) == "threw"

\* the catch block of processDocumentEmbedding: log, and return
hookCatch(error) == "returned"

\* a mutant of attachEmbedding: the metadata the payload held are kept where
\* the new ones name no value
attachEmbedding_MergeMetadata(data, embeddingResult, now) ==
    LET fresh == [model |-> "text-embedding-ada-002",
                  generatedAt |-> now,
                  dimensions |-> Len(Get(embeddingResult.embedding)),
                  processedText |-> embeddingResult.processedText,
                  originalLength |-> embeddingResult.originalLength,
                  processedLength |-> embeddingResult.processedLength]
        held == IF "embeddingMetadata" \in DOMAIN data THEN data.embeddingMetadata
                ELSE fresh
    IN  [f \in DOMAIN data \cup {"embedding", "embeddingMetadata"} |->
            IF f = "embedding" THEN Get(embeddingResult.embedding)
            ELSE IF f = "embeddingMetadata"
            THEN [m \in DOMAIN held \cup DOMAIN fresh |->
                     IF m \in DOMAIN fresh THEN fresh[m] ELSE held[m]]
            ELSE data[f]]

\* data.embedding = ...; data.embeddingMetadata = {...}
attachEmbedding(data, embeddingResult, now) ==
    [f \in DOMAIN data \cup {"embedding", "embeddingMetadata"} |->
        IF f = "embedding" THEN Get(embeddingResult.embedding)
        ELSE IF f = "embeddingMetadata"
        THEN [model |-> "text-embedding-ada-002",
              generatedAt |-> now,
              dimensions |-> Len(Get(embeddingResult.embedding)),
              processedText |-> embeddingResult.processedText,
              originalLength |-> embeddingResult.originalLength,
              processedLength |-> embeddingResult.processedLength]
        ELSE data[f]]

\* processDocumentEmbedding once generateEmbedding has `begun` with the
\* extracted text: rejected at once, or waiting for the provider
hookAwaits(textContent, begun) ==
    IF begun.threw
    THEN [pc |-> hookCatch(Get(begun.error)), embedCalls |-> <<textContent>>,
          requests |-> <<>>, embedded |-> Some(begun)]
    ELSE [pc |-> "embedding", embedCalls |-> <<textContent>>,
          requests |-> <<Get(begun.value)>>, embedded |-> None]

\* processDocumentEmbedding from the extracted text to its first suspension
hookExtracted(client, extracted) ==
    IF extracted.threw
    THEN [pc |-> hookCatch(Get(extracted.error)), embedCalls |-> <<>>,
          requests |-> <<>>, embedded |-> None]
    ELSE IF insufficientText(Get(extracted.value))
    THEN [pc |-> "returned", embedCalls |-> <<>>, requests |-> <<>>,
          embedded |-> None]
    ELSE hookAwaits(Get(extracted.value),
                    generateEmbeddingBegin(client, Get(extracted.value)))

\* processDocumentEmbedding up to its first suspension
hookBegin(client, model, data) ==
    IF skippedModel(modelNameOf(model))
    THEN [pc |-> "returned", embedCalls |-> <<>>, requests |-> <<>>,
          embedded |-> None]
    ELSE hookExtracted(client, extractTextContent(data, modelNameOf(model)))

\* processDocumentEmbedding from the settlement of generateEmbedding on: the
\* payload and the way the hook ends
hookEnd(data, settlement, now) ==
    IF settlement.threw
    THEN [pc |-> hookCatch(Get(settlement.error)), data |-> data]
    ELSE IF Get(settlement.value).embedding = None
    THEN [pc |-> "returned", data |-> data]
    ELSE [pc |-> "returned",
          data |-> Some(attachEmbedding(Get(data), Get(settlement.value), now))]

---------------------------------------------------------------------------
(* search-service.js and the store call of vector-service.js *)

\* limit = 10
defaultLimit == 10

\* threshold = 0.1
defaultThreshold == [nan |-> FALSE, n |-> 1, d |-> 100]

\* limit: 1000 of the findMany call
retrievalCeiling == 1000

\* an option of the caller with its default (a destructuring default)
Default(option, value) == IF option = None THEN value ELSE Get(option)

\* the empty filter object {}
NoFilters == [f \in {} |-> ""]

\* truthiness of a string that may be missing
Truthy(s) == s # None /\ Get(s) # ""

\* { embedding: { $notNull: true }, ...filters }: a key of the caller's
\* filters replaces the same key of the predicate
mergeFilters(filters) ==
    [f \in {"embedding"} \cup DOMAIN filters |->
        IF f \in DOMAIN filters THEN filters[f] ELSE "$notNull"]

\* does the document satisfy the condition of a filter on field f: a field
\* the document does not hold is null, { $notNull: true } asks for a value,
\* { $null: true } for none, and a range ("$range", the { $gte, $lte } of a
\* date filter) for a date within it (no document of the model holds one)
matchesFilter(doc, f, condition) ==
    LET value == IF f \in DOMAIN doc THEN doc[f] ELSE None
    IN  IF condition = "$notNull" THEN value # None
        ELSE IF condition = "$null" THEN value = None
        ELSE FALSE

\* the store's findMany: the documents of the collection that match every
\* filter, at most `limit` of them, in the store's order
findMany(documents, args) ==
    LET matching ==
            SelectSeq(documents,
                LAMBDA doc : \A f \in DOMAIN args.filters :
                    matchesFilter(doc, f, args.filters[f]))
    IN  SubSeq(matching, 1,
               IF Len(matching) < args.limit THEN Len(matching) ELSE args.limit)

\* the argument of strapi.documents(contentType).findMany in searchSimilar
findManyArgs(options) ==
    [filters |-> mergeFilters(options.filters),
     locale |-> options.locale,
     limit |-> retrievalCeiling]

\* the options of semanticSearch after destructuring
searchOptionsOf(options) ==
    [limit |-> Default(options.limit, defaultLimit),
     threshold |-> Default(options.threshold, defaultThreshold),
     filters |-> Default(options.filters, NoFilters),
     locale |-> options.locale,
     includeEmbedding |-> Default(options.includeEmbedding, FALSE)]

\* a mutant of cleanResult: only the vector is removed
cleanResult_KeepMetadata(result, includeEmbedding) ==
    IF includeEmbedding THEN result
    ELSE [f \in DOMAIN result \ {"embedding"} |-> result[f]]

\* the callback of results.map: a copy of the result, without its embedding
\* and embeddingMetadata keys unless includeEmbedding
cleanResult(result, includeEmbedding) ==
    IF includeEmbedding THEN result
    ELSE [f \in DOMAIN result \ {"embedding", "embeddingMetadata"} |-> result[f]]

\* the response of semanticSearch
searchResponse(query, contentType, opts, queryResult, results) ==
    LET cleanResults ==
            [k \in 1..Len(results) |-> cleanResult(results[k], opts.includeEmbedding)]
    IN  [query |-> query,
         contentType |-> contentType,
         results |-> cleanResults,
         metadata |-> Some(
             [totalResults |-> Len(cleanResults),
              queryProcessing |->
                  [originalQuery |-> query,
                   processedText |-> queryResult.processedText,
                   embeddingDimensions |-> Len(Get(queryResult.embedding))],
              searchOptions |->
                  [limit |-> opts.limit,
                   threshold |-> opts.threshold,
                   locale |-> opts.locale,
                   filtersApplied |-> DOMAIN opts.filters # {}]]),
         error |-> None]

\* a mutant of semanticSearchCatch: the failure is answered by an empty
\* successful response
semanticSearchCatch_EmptySuccess(error) ==
    Return([query |-> <<>>, contentType |-> "", results |-> <<>>,
            metadata |-> None, error |-> None])

\* the catch block of semanticSearch: log and rethrow
semanticSearchCatch(error) == Throw(error)

\* semanticSearch from the settlement of generateEmbedding to its own
\* settlement or to its findMany call: it settles here (settles, with
\* `outcome`) when no embedding was obtained, and goes on to searchSimilar
\* otherwise
afterEmbedding(settlement) ==
    IF settlement.threw
    THEN [settles |-> TRUE, outcome |-> semanticSearchCatch(Get(settlement.error))]
    ELSE IF Get(settlement.value).embedding = None
    THEN [settles |-> TRUE,
          outcome |-> semanticSearchCatch(
              Error("Failed to generate embedding for search query"))]
    ELSE [settles |-> FALSE, outcome |-> settlement]

\* semanticSearch from the settlement of findMany on: `found` is
\* Return(documents) or Throw(store error)
afterFindMany(query, contentType, options, queryResult, found) ==
    IF found.threw THEN semanticSearchCatch(Get(found.error))
    ELSE LET opts == searchOptionsOf(options)
             results == rankDocumentsOf(Get(queryResult.embedding),
                                        Get(found.value), opts)
         IN  Return(searchResponse(query, contentType, opts, queryResult, results))

\* Math.ceil(limit * 1.5)
overFetch(limit) == -((-(3 * limit)) \div 2)

\* the options multiContentTypeSearch hands to each semanticSearch:
\* { ...options, limit: aggregateResults ? Math.ceil(limit * 1.5) : limit }
subSearchOptions(options) ==
    LET limit == Default(options.limit, defaultLimit)
        aggregateResults == Default(options.aggregateResults, TRUE)
    IN  [options EXCEPT
            !.limit = Some(IF aggregateResults THEN overFetch(limit) ELSE limit)]

\* a mutant of errorEntry: the message of the error is not recorded
errorEntry_NoMessage(query, contentType, error) ==
    [query |-> query,
     contentType |-> contentType,
     results |-> <<>>,
     metadata |-> None,
     error |-> None]

\* the block the .catch handler of a sub-search returns
errorEntry(query, contentType, error) ==
    [query |-> query,
     contentType |-> contentType,
     results |-> <<>>,
     metadata |-> None,
     error |-> Some(error.message)]

\* a mutant of subSearchCatch: the rejection of the sub-search is not caught
subSearchCatch_Rethrow(query, contentType, outcome) == outcome

\* semanticSearch(...).catch(error => ...): the settlement of one element of
\* searchPromises from the settlement of its semanticSearch
subSearchCatch(query, contentType, outcome) ==
    IF outcome.threw THEN Return(errorEntry(query, contentType, Get(outcome.error)))
    ELSE outcome

\* { ...result, contentType: searchResult.contentType }
tagResult(result, contentType) ==
    [f \in DOMAIN result \cup {"contentType"} |->
        IF f = "contentType" THEN contentType ELSE result[f]]

RECURSIVE collectResults_LastFirst(_)
\* a mutant of collectResults: the blocks are gone through from the last
collectResults_LastFirst(blocks) ==
    IF blocks = <<>> THEN <<>>
    ELSE LET searchResult == blocks[Len(blocks)]
         IN  [k \in 1..Len(searchResult.results) |->
                  tagResult(searchResult.results[k], searchResult.contentType)]
             \o collectResults_LastFirst(SubSeq(blocks, 1, Len(blocks) - 1))

RECURSIVE collectResults(_)
\* searchResults.forEach(...): every result of every block, tagged, in the
\* order of the blocks
collectResults(blocks) ==
    IF blocks = <<>> THEN <<>>
    ELSE LET searchResult == Head(blocks)
         IN  [k \in 1..Len(searchResult.results) |->
                  tagResult(searchResult.results[k], searchResult.contentType)]
             \o collectResults(Tail(blocks))

\* allResults.sort((a, b) => b.similarityScore - a.similarityScore)
\*           .slice(0, limit)
sortAndLimit(allResults, limit) == slice(sortByScore(allResults), limit)

\* the response of multiContentTypeSearch when aggregateResults
aggregatedResponse(query, contentTypes, blocks, limit) ==
    LET sortedResults == sortAndLimit(collectResults(blocks), limit)
    IN  [query |-> query,
         contentTypes |-> contentTypes,
         results |-> sortedResults,
         metadata |->
             [totalResults |-> Len(sortedResults),
              searchedContentTypes |-> contentTypes,
              individualResults |->
                  [i \in 1..Len(blocks) |->
                      [contentType |-> blocks[i].contentType,
                       count |-> Len(blocks[i].results),
                       hasError |-> Truthy(blocks[i].error)]]]]

\* the response of multiContentTypeSearch when not aggregateResults
separateResponse(query, contentTypes, blocks) ==
    [query |-> query,
     contentTypes |-> contentTypes,
     results |-> blocks,
     metadata |->
         [totalContentTypes |-> Len(contentTypes),
          successfulSearches |->
              Cardinality({i \in 1..Len(blocks) : ~Truthy(blocks[i].error)})]]

\* multiContentTypeSearch from the settlement of Promise.all on: `outcomes`
\* are the settlements of searchPromises, in the order of contentTypes
afterPromiseAll(query, contentTypes, options, outcomes) ==
    IF \E i \in 1..Len(outcomes) : outcomes[i].threw
    THEN Throw(Get(outcomes[CHOOSE i \in 1..Len(outcomes) : outcomes[i].threw].error))
    ELSE LET blocks == [i \in 1..Len(outcomes) |-> Get(outcomes[i].value)]
         IN  IF Default(options.aggregateResults, TRUE)
             THEN Return(aggregatedResponse(query, contentTypes, blocks,
                                            Default(options.limit, defaultLimit)))
             ELSE Return(separateResponse(query, contentTypes, blocks))

---------------------------------------------------------------------------
(* Specification of one calculateCosineSimilarity call *)

\* no calculateCosineSimilarity call was made
CosIdle ==
    /\ vectorA = None
    /\ vectorB = None
    /\ similarity = None

\* no searchSimilar call was made
RankIdle ==
    /\ rankQuery = None
    /\ rankDocuments = <<>>
    /\ rankOptions = None
    /\ scoredResults = None

\* no search call was made
SearchIdle ==
    /\ call = None
    /\ pc = <<>>
    /\ embedded = <<>>
    /\ settled = <<>>
    /\ searchResults = <<>>
    /\ providerCalls = <<>>
    /\ findManyCalls = <<>>
    /\ response = None

\* no generateEmbedding or generateBatchEmbeddings call was made
ClientIdle ==
    /\ embedCall = None
    /\ groupStart = 0
    /\ items = <<>>
    /\ batchResults = <<>>
    /\ requests = <<>>
    /\ embedResponse = None
    /\ overtaken = FALSE

\* no preprocessText call was made
NormIdle ==
    /\ normInput = None
    /\ normOutput = None

\* no write event was handed to the hook
HookIdle ==
    /\ hookEvent = None
    /\ hookData = None
    /\ hookPc = "idle"
    /\ hookEmbedCalls = <<>>
    /\ hookRequests = <<>>
    /\ hookEmbedded = None

\* no request was handed to the controller
ApiIdle ==
    /\ apiRequest = None
    /\ apiAnswers = <<>>
    /\ apiFindMany = <<>>
    /\ apiResponse = None

CosInit ==
    /\ CosIdle
    /\ RankIdle
    /\ SearchIdle
    /\ ClientIdle
    /\ NormIdle
    /\ HookIdle
    /\ ApiIdle
    /\ initRan = "never"
    /\ openai = None
    /\ store = [c \in {} |-> <<>>]

CalculateCosineSimilarity ==
    /\ similarity = None
    /\ \E a \in CosineVectors, b \in CosineVectors :
          /\ vectorA' = a
          /\ vectorB' = b
          /\ similarity' = Some(calculateCosineSimilarity(a, b))
    /\ UNCHANGED <<apiVars, rankVars, searchVars, clientVars, normVars, hookVars>>

CosNext == CalculateCosineSimilarity

SpecCosine == CosInit /\ [][CosNext]_vars

---------------------------------------------------------------------------
(* Specification of one searchSimilar call *)

RECURSIVE SeqsUpTo(_, _)
\* the sequences over S of length at most n
SeqsUpTo(S, n) ==
    IF n = 0 THEN {<<>>}
    ELSE LET shorter == SeqsUpTo(S, n - 1)
         IN  shorter \cup {Append(s, x) : s \in shorter, x \in S}

\* the documents findMany may return: document i has documentId i
StoredDocuments ==
    {[i \in 1..Len(es) |-> Document(i, es[i])] : es \in SeqsUpTo(StoredEmbeddings, MaxDocs)}

RankInit == CosInit

SearchSimilar ==
    /\ scoredResults = None
    /\ \E q \in QueryEmbeddings, docs \in StoredDocuments,
          limit \in Limits, threshold \in Thresholds :
          LET options == [limit |-> limit, threshold |-> threshold]
          IN  /\ rankQuery' = Some(q)
              /\ rankDocuments' = docs
              /\ rankOptions' = Some(options)
              /\ scoredResults' = Some(rankDocumentsOf(q, docs, options))
    /\ UNCHANGED <<apiVars, cosVars, searchVars, clientVars, normVars, hookVars>>

RankNext == SearchSimilar

SpecRank == RankInit /\ [][RankNext]_vars

---------------------------------------------------------------------------
(* Specification of the search orchestrator: one semanticSearch or          *)
(* multiContentTypeSearch call, its sub-searches running concurrently.      *)
(* A sub-search is suspended at its provider request and at its findMany    *)
(* call; each action is the code that runs between two suspensions.         *)

\* largest number of content types of one multiContentTypeSearch call
MaxTypes == 2

Collections == {"articles", "blogs"}

\* contents of a collection: three documents with vectors of the query's
\* length (two of them tie for every query)
GoodContents ==
    <<Document(1, Some(<<1, 1>>)), Document(2, Some(<<1, 0>>)), Document(3, Some(<<2, 2>>))>>

\* a vector of the wrong length, a document without vector, a good document
MixedContents ==
    <<Document(1, Some(<<1>>)), Document(2, None), Document(3, Some(<<1, 0>>))>>

\* no document holds a vector
BareContents == <<Document(1, None)>>

\* the stores of the model
Stores ==
    {[articles |-> GoodContents, blogs |-> GoodContents],
     [articles |-> GoodContents, blogs |-> MixedContents],
     [articles |-> MixedContents, blogs |-> GoodContents],
     [articles |-> GoodContents, blogs |-> BareContents]}

\* the query texts: missing, too short, and long enough ("<b>Hello world")
QueryTexts ==
    {<<>>,
     <<"a", "b", " ">>,
     <<"<", "b", ">", "H", "e", "l", "l", "o", " ", "w", "o", "r", "l", "d">>}

\* the options of a call: an absent option is None
Options(limit, threshold, aggregateResults, includeEmbedding) ==
    [limit |-> limit, threshold |-> threshold, filters |-> None, locale |-> None,
     aggregateResults |-> aggregateResults, includeEmbedding |-> includeEmbedding]

OptionChoices ==
    {Options(None, None, None, None),
     Options(Some(2), Some([nan |-> FALSE, n |-> 1, d |-> 4]), None, None),
     Options(Some(1), None, None, None),
     Options(Some(-1), None, None, None),
     Options(Some(2), None, Some(FALSE), None),
     Options(Some(1), None, None, Some(TRUE)),
     Options(Some(2), None, Some(FALSE), Some(TRUE))}

\* the answers of the provider to an embedding request
ProviderAnswers ==
    {Return(Some(<<1, 0>>)),
     Return(None),
     Throw([code |-> "insufficient_quota", message |-> "You exceeded your current quota"]),
     Throw([code |-> "", message |-> "Connection error."])}

\* the errors findMany may throw; an error may carry no message
StoreErrors == {Error("Database unavailable"), Error("")}

SearchInit ==
    /\ CosIdle
    /\ RankIdle
    /\ SearchIdle
    /\ ClientIdle
    /\ NormIdle
    /\ HookIdle
    /\ ApiIdle
    /\ openai \in {None, Some("client")}
    /\ initRan = IF openai = None THEN "never" ELSE "key"
    /\ store \in Stores

\* semanticSearch up to its first suspension
beginSearch(query, contentType) ==
    IF query = <<>> \/ contentType = ""
    THEN [pc |-> "done", embedded |-> None, requests |-> 0,
          settled |-> Some(Throw(Error("Query and content type are required")))]
    ELSE LET begun == generateEmbeddingBegin(openai, query)
         IN  IF begun.threw
             THEN [pc |-> "done", embedded |-> Some(begun), requests |-> 0,
                   settled |-> Some(afterEmbedding(begun).outcome)]
             ELSE [pc |-> "embedding", embedded |-> None, requests |-> 1,
                   settled |-> None]

\* the options of sub-search i of the call
OptionsOf(i) ==
    IF Get(call).kind = "semanticSearch" THEN Get(call).options
    ELSE subSearchOptions(Get(call).options)

\* the settlement of element i of searchPromises from that of sub-search i
PromiseOf(c, i, outcome) ==
    IF outcome = None THEN None
    ELSE IF c.kind = "semanticSearch" THEN outcome
    ELSE Some(subSearchCatch(c.query, c.contentTypes[i], Get(outcome)))

SemanticSearchCall ==
    /\ call = None
    /\ \E query \in QueryTexts, contentType \in Collections, options \in OptionChoices :
          LET c == [kind |-> "semanticSearch", query |-> query,
                    contentTypes |-> <<contentType>>, options |-> options]
              begun == beginSearch(query, contentType)
          IN  /\ call' = Some(c)
              /\ pc' = <<begun.pc>>
              /\ embedded' = <<begun.embedded>>
              /\ settled' = <<begun.settled>>
              /\ searchResults' = <<begun.settled>>
              /\ providerCalls' = <<begun.requests>>
              /\ response' = begun.settled
    /\ UNCHANGED <<apiVars, cosVars, rankVars, clientVars, normVars, hookVars,
                   openai, store, findManyCalls>>

MultiContentTypeSearchCall ==
    /\ call = None
    /\ \E query \in QueryTexts, contentTypes \in SeqsUpTo(Collections, MaxTypes),
          options \in OptionChoices :
          LET c == [kind |-> "multiContentTypeSearch", query |-> query,
                    contentTypes |-> contentTypes, options |-> options]
              n == Len(contentTypes)
              begun == [i \in 1..n |-> beginSearch(query, contentTypes[i])]
          IN  /\ call' = Some(c)
              /\ IF query = <<>> \/ n = 0
                 THEN /\ pc' = <<>>
                      /\ embedded' = <<>>
                      /\ settled' = <<>>
                      /\ searchResults' = <<>>
                      /\ providerCalls' = <<>>
                      /\ response' =
                            Some(Throw(Error("Query and content types array are required")))
                 ELSE /\ pc' = [i \in 1..n |-> begun[i].pc]
                      /\ embedded' = [i \in 1..n |-> begun[i].embedded]
                      /\ settled' = [i \in 1..n |-> begun[i].settled]
                      /\ searchResults' = [i \in 1..n |-> PromiseOf(c, i, begun[i].settled)]
                      /\ providerCalls' = [i \in 1..n |-> begun[i].requests]
                      /\ response' = None
    /\ UNCHANGED <<apiVars, cosVars, rankVars, clientVars, normVars, hookVars,
                   openai, store, findManyCalls>>

\* the provider answers the request of sub-search i: generateEmbedding
\* settles, and semanticSearch runs on to its findMany call or fails
ProviderAnswer(i) ==
    /\ pc[i] = "embedding"
    /\ \E answer \in ProviderAnswers :
          LET c == Get(call)
              result == generateEmbeddingEnd(c.query, preprocessText(c.query), answer)
              next == afterEmbedding(result)
          IN  /\ embedded' = [embedded EXCEPT ![i] = Some(result)]
              /\ IF next.settles
                 THEN /\ pc' = [pc EXCEPT ![i] = "done"]
                      /\ settled' = [settled EXCEPT ![i] = Some(next.outcome)]
                      /\ searchResults' =
                            [searchResults EXCEPT
                                ![i] = PromiseOf(c, i, Some(next.outcome))]
                      /\ response' =
                            IF c.kind = "semanticSearch" THEN Some(next.outcome)
                            ELSE response
                      /\ UNCHANGED findManyCalls
                 ELSE /\ pc' = [pc EXCEPT ![i] = "finding"]
                      /\ findManyCalls' =
                            Append(findManyCalls,
                                   [search |-> i, contentType |-> c.contentTypes[i],
                                    args |-> findManyArgs(searchOptionsOf(OptionsOf(i)))])
                      /\ UNCHANGED <<settled, searchResults, response>>
    /\ UNCHANGED <<apiVars, cosVars, rankVars, clientVars, normVars, hookVars,
                   openai, store, call, providerCalls>>

\* the findMany call of sub-search i settles: searchSimilar ranks and
\* semanticSearch settles
FindManySettles(i) ==
    /\ pc[i] = "finding"
    /\ \E k \in 1..Len(findManyCalls) :
          /\ findManyCalls[k].search = i
          /\ \E found \in {Return(findMany(store[findManyCalls[k].contentType],
                                           findManyCalls[k].args))}
                          \cup {Throw(e) : e \in StoreErrors} :
                LET c == Get(call)
                    outcome == afterFindMany(c.query, c.contentTypes[i], OptionsOf(i),
                                             Get(Get(embedded[i]).value), found)
                IN  /\ pc' = [pc EXCEPT ![i] = "done"]
                    /\ settled' = [settled EXCEPT ![i] = Some(outcome)]
                    /\ searchResults' =
                          [searchResults EXCEPT ![i] = PromiseOf(c, i, Some(outcome))]
                    /\ response' =
                          IF c.kind = "semanticSearch" THEN Some(outcome) ELSE response
    /\ UNCHANGED <<apiVars, cosVars, rankVars, clientVars, normVars, hookVars,
                   openai, store, call, embedded, providerCalls, findManyCalls>>

\* Promise.all(searchPromises) settles and multiContentTypeSearch returns
PromiseAllSettles ==
    /\ call # None
    /\ Get(call).kind = "multiContentTypeSearch"
    /\ response = None
    /\ \A i \in 1..Len(pc) : pc[i] = "done"
    /\ LET c == Get(call)
       IN  response' = Some(afterPromiseAll(c.query, c.contentTypes, c.options,
                                            [i \in 1..Len(pc) |-> Get(searchResults[i])]))
    /\ UNCHANGED <<apiVars, cosVars, rankVars, clientVars, normVars, hookVars,
                   openai, store, call, pc, embedded, settled,
                   searchResults, providerCalls, findManyCalls>>

SearchNext ==
    \/ SemanticSearchCall
    \/ MultiContentTypeSearchCall
    \/ \E i \in 1..Len(pc) : ProviderAnswer(i)
    \/ \E i \in 1..Len(pc) : FindManySettles(i)
    \/ PromiseAllSettles

SpecSearch == SearchInit /\ [][SearchNext]_vars

---------------------------------------------------------------------------
(* Specification of the embedding client: init, and generateEmbedding and    *)
(* generateBatchEmbeddings calls, one after the other.  The invocations of   *)
(* generateEmbedding of one group run concurrently: each is suspended at its *)
(* provider request, and the requests are answered in any order.  The model  *)
(* follows a call up to its settlement: what the requests still in flight    *)
(* then answer reaches no caller.                                            *)

\* the variables of the search orchestrator but the provider handle
searchCallVars == <<store, call, pc, embedded, settled, searchResults,
                    providerCalls, findManyCalls, response>>

\* longest list of texts handed to generateBatchEmbeddings: one group of
\* batchSize texts and the start of a second group
MaxTexts == 11

\* the values of OPENAI_API_KEY: not set, empty, set
ApiKeys == {None, Some(""), Some("sk-test")}

\* text number i of a batch: 10 + i characters, so that its length tells it
\* from the other texts of the batch
GoodText(i) == [k \in 1..(10 + i) |-> "x"]

\* a batch of n texts
GoodTexts(n) == [i \in 1..n |-> GoodText(i)]

\* the arguments of generateBatchEmbeddings: no text, one group, two groups,
\* and batches that hold a text that is too short or empty
BatchInputs ==
    {<<>>,
     GoodTexts(1),
     GoodTexts(3),
     GoodTexts(MaxTexts),
     [GoodTexts(3) EXCEPT ![2] = <<"a", "b", " ">>],
     [GoodTexts(MaxTexts) EXCEPT ![2] = <<>>, ![4] = <<"a", "b", " ">>]}

\* the arguments of generateEmbedding: empty, whitespace only, "ab ", a tag
\* alone, nine characters, ten characters, "<b>Hello world"
EmbedTexts ==
    {<<>>,
     <<" ", "\n">>,
     <<"a", "b", " ">>,
     <<" ", "<", "b", ">">>,
     <<"<", "i", ">", "1", "2", "3", "4", "5", " ", " ", "7", "8", "9", " ">>,
     <<"0", "1", "2", "3", "4", "5", "6", "7", "8", "9">>,
     <<"<", "b", ">", "H", "e", "l", "l", "o", " ", "w", "o", "r", "l", "d">>}

\* the errors of the provider: the three codes the client knows, another
\* code, and an error without code
ProviderErrors ==
    {[code |-> "insufficient_quota", message |-> "You exceeded your current quota"],
     [code |-> "invalid_api_key", message |-> "Incorrect API key provided"],
     [code |-> "rate_limit_exceeded", message |-> "Rate limit reached"],
     [code |-> "server_error", message |-> "The server had an error"],
     [code |-> "", message |-> "Connection error."]}

\* the answers of the provider to a request of the client
EmbedAnswers == {Return(Some(<<1, 0>>))} \cup {Throw(e) : e \in ProviderErrors}

ClientInit == CosInit

\* init()
InitCall ==
    /\ \E apiKey \in ApiKeys :
          /\ openai' = init(openai, apiKey)
          /\ initRan' = IF apiKey # None /\ Get(apiKey) # "" THEN "key"
                        ELSE IF initRan = "never" THEN "no key"
                        ELSE initRan
    /\ UNCHANGED <<apiVars, cosVars, rankVars, normVars, hookVars, searchCallVars,
                   embedCall, groupStart, items, batchResults, requests,
                   embedResponse, overtaken>>

\* generateEmbedding(text), called from outside, up to its suspension
GenerateEmbeddingCall ==
    /\ embedCall = None
    /\ \E text \in EmbedTexts :
          LET item == beginItem(openai, text)
          IN  /\ embedCall' = Some([kind |-> "generateEmbedding", texts |-> <<text>>])
              /\ items' = <<item>>
              /\ requests' = requestsOf(<<item>>)
              /\ embedResponse' = item.outcome
    /\ groupStart' = 0
    /\ batchResults' = <<>>
    /\ overtaken' = FALSE
    /\ UNCHANGED <<apiVars, cosVars, rankVars, normVars, hookVars, searchCallVars,
                   openai, initRan>>

\* generateBatchEmbeddings(texts) up to its first suspension
GenerateBatchEmbeddingsCall ==
    /\ embedCall = None
    /\ \E texts \in BatchInputs :
          /\ embedCall' = Some([kind |-> "generateBatchEmbeddings", texts |-> texts])
          /\ IF Len(texts) = 0
             THEN /\ items' = <<>>
                  /\ requests' = <<>>
                  /\ embedResponse' = Some(Throw(Error(
                        "Texts array is required for batch embedding generation")))
             ELSE LET group == startGroup(openai, texts, 0, <<>>, <<>>)
                  IN  /\ items' = group.items
                      /\ requests' = group.requests
                      /\ embedResponse' = group.response
    /\ groupStart' = 0
    /\ batchResults' = <<>>
    /\ overtaken' = FALSE
    /\ UNCHANGED <<apiVars, cosVars, rankVars, normVars, hookVars, searchCallVars,
                   openai, initRan>>

\* the provider answers the request of item k of the current group:
\* generateEmbedding settles, and with it the call, or Promise.all
ProviderSettles(k) ==
    /\ embedCall # None
    /\ embedResponse = None
    /\ Pending(items[k])
    /\ \E answer \in EmbedAnswers :
          LET c == Get(embedCall)
              outcome == generateEmbeddingEnd(items[k].text,
                                              Get(items[k].processedText), answer)
              settledItems == [items EXCEPT ![k].answer = Some(answer),
                                            ![k].outcome = Some(outcome)]
          IN  /\ items' = settledItems
              /\ requests' = requestsAfter(requests, Get(items[k].processedText), answer)
              /\ IF c.kind = "generateEmbedding"
                 THEN /\ embedResponse' = Some(outcome)
                      /\ UNCHANGED batchResults
                 ELSE IF outcome.threw
                 THEN /\ embedResponse' =
                            Some(batchCatch(Get(outcome.error), batchResults))
                      /\ UNCHANGED batchResults
                 ELSE IF \E j \in 1..Len(items) : Pending(settledItems[j])
                 THEN UNCHANGED <<embedResponse, batchResults>>
                 ELSE LET ended == endGroup(c.texts, groupStart, batchResults,
                                            settledItems)
                      IN  /\ batchResults' = ended.results
                          /\ embedResponse' = ended.response
    /\ overtaken' = (overtaken \/ \E j \in 1..(k - 1) : Pending(items[j]))
    /\ UNCHANGED <<apiVars, cosVars, rankVars, normVars, hookVars, searchCallVars,
                   openai, initRan, embedCall, groupStart>>

\* the delay between two groups has elapsed: the next group starts
DelayElapses ==
    /\ embedCall # None
    /\ Get(embedCall).kind = "generateBatchEmbeddings"
    /\ embedResponse = None
    /\ \A k \in 1..Len(items) : ~Pending(items[k])
    /\ LET c == Get(embedCall)
           group == startGroup(openai, c.texts, groupStart + batchSize,
                               batchResults, requests)
       IN  /\ groupStart' = groupStart + batchSize
           /\ items' = group.items
           /\ requests' = group.requests
           /\ embedResponse' = group.response
    /\ UNCHANGED <<apiVars, cosVars, rankVars, normVars, hookVars, searchCallVars,
                   openai, initRan, embedCall, batchResults, overtaken>>

\* the caller has received the settlement of its call: nothing is left of
\* the call, and the next call may be made
CallReturns ==
    /\ embedCall # None
    /\ embedResponse # None
    /\ embedCall' = None
    /\ groupStart' = 0
    /\ items' = <<>>
    /\ batchResults' = <<>>
    /\ requests' = <<>>
    /\ embedResponse' = None
    /\ overtaken' = FALSE
    /\ UNCHANGED <<apiVars, cosVars, rankVars, normVars, hookVars, searchCallVars,
                   openai, initRan>>

ClientNext ==
    \/ InitCall
    \/ GenerateEmbeddingCall
    \/ GenerateBatchEmbeddingsCall
    \/ \E k \in 1..Len(items) : ProviderSettles(k)
    \/ DelayElapses
    \/ CallReturns

SpecClient == ClientInit /\ [][ClientNext]_vars

---------------------------------------------------------------------------
(* Specification of one preprocessText call *)

\* longest of the short texts handed to preprocessText
MaxTextLen == 4

\* the characters of the short texts
Alphabet == {"<", ">", " ", "\n", "a"}

\* a text of n letters
LongText(n) == [i \in 1..n |-> "a"]

\* "<p>Hello   world</p>"
HelloWorld ==
    <<"<", "p", ">", "H", "e", "l", "l", "o", " ", " ", " ",
      "w", "o", "r", "l", "d", "<", "/", "p", ">">>

\* texts whose cleaned form has maxLength - 1 to maxLength + 2 characters:
\* letters, after nothing or a tag, before nothing, whitespace or " b"
LongTexts ==
    {before \o LongText(n) \o after :
        n \in {maxLength - 1, maxLength, maxLength + 1},
        before \in {<<>>, <<"<", "b", ">">>},
        after \in {<<>>, <<" ", " ">>, <<" ", "b">>}}

\* the arguments of preprocessText
NormalizeInputs == SeqsUpTo(Alphabet, MaxTextLen) \cup {HelloWorld} \cup LongTexts

NormInit ==
    /\ CosIdle
    /\ RankIdle
    /\ SearchIdle
    /\ ClientIdle
    /\ HookIdle
    /\ ApiIdle
    /\ initRan = "never"
    /\ openai = None
    /\ store = [c \in {} |-> <<>>]
    /\ normInput \in {Some(text) : text \in NormalizeInputs}
    /\ normOutput = None

\* preprocessText(text)
PreprocessText ==
    /\ normInput # None
    /\ normOutput = None
    /\ normOutput' = Some(preprocessText(Get(normInput)))
    /\ UNCHANGED <<apiVars, cosVars, rankVars, searchVars, clientVars, hookVars, normInput>>

NormNext == PreprocessText

SpecNormalize == NormInit /\ [][NormNext]_vars

---------------------------------------------------------------------------
(* Specification of the write hook: one beforeCreate or beforeUpdate event   *)

\* the model of an event: a name or a model object, of a content type with
\* configured fields, of one without, of an admin and of a plugin type
Models ==
    {[type |-> "object", uid |-> <<"api", "article.article">>],
     [type |-> "string", value |-> <<"api", "article.article">>],
     [type |-> "object", uid |-> <<"api", "page.page">>],
     [type |-> "object", uid |-> <<"admin", "user">>],
     [type |-> "object", uid |-> <<"plugin", "upload.file">>]}

\* field values
Str(text) == [type |-> "string", text |-> Some(text)]
Json(type, text) == [type |-> type, text |-> text]

\* "[{"t":"x"}]", the JSON text of a list of rich text blocks
BlocksJson == <<"[", "{", "\"", "t", "\"", ":", "\"", "x", "\"", "}", "]">>

\* the payloads (params.data) of the events; None: the event has no payload
Payloads ==
    {None,
     \* title "Hi"
     Some([title |-> Str(<<"H", "i">>)]),
     \* title "Hello world"
     Some([title |-> Str(<<"H", "e", "l", "l", "o", " ", "w", "o", "r", "l", "d">>)]),
     \* title "Hello", content "worl": ten characters with the space between
     Some([title |-> Str(<<"H", "e", "l", "l", "o">>),
           content |-> Str(<<"w", "o", "r", "l">>)]),
     \* title "123456789  ": nine characters when trimmed
     Some([title |-> Str(<<"1", "2", "3", "4", "5", "6", "7", "8", "9", " ", " ">>)]),
     \* title "<p><b></b></p>": long enough, but nothing when normalized
     Some([title |-> Str(<<"<", "p", ">", "<", "b", ">", "<", "/", "b", ">",
                           "<", "/", "p", ">">>)]),
     \* title "", content a list of blocks
     Some([title |-> Str(<<>>), content |-> Json("array", Some(BlocksJson))]),
     \* title "Hi", content an empty list, views a number
     Some([title |-> Str(<<"H", "i">>), content |-> Json("array", Some(<<"[", "]">>)),
           views |-> Json("number", None)]),
     \* content a circular object
     Some([title |-> Str(<<"H", "e", "l", "l", "o", " ", "w", "o", "r", "l", "d">>),
           content |-> Json("object", None)]),
     \* body "Hello world" and nothing else
     Some([body |-> Str(<<"H", "e", "l", "l", "o", " ", "w", "o", "r", "l", "d">>)]),
     \* title "Hello world", with the vector and the metadata of an earlier
     \* write (by another model, with a field the hook does not write)
     Some([title |-> Str(<<"H", "e", "l", "l", "o", " ", "w", "o", "r", "l", "d">>),
           embedding |-> <<5, 5, 5>>,
           embeddingMetadata |->
               [model |-> "text-embedding-3-small",
                generatedAt |-> "2023-01-01T00:00:00.000Z",
                dimensions |-> 3,
                processedText |-> <<"o", "l", "d">>,
                originalLength |-> 3,
                processedLength |-> 3,
                source |-> "import"]])}

\* the answers of the provider to the request of the hook
HookAnswers == ProviderAnswers \cup EmbedAnswers \cup {Return(Some(<<0, 1, 0>>))}

\* the values of new Date().toISOString()
Timestamps == {"2024-01-01T00:00:00.000Z", "2024-01-02T00:00:00.000Z"}

HookInit ==
    /\ CosIdle
    /\ RankIdle
    /\ SearchIdle
    /\ ClientIdle
    /\ NormIdle
    /\ HookIdle
    /\ ApiIdle
    /\ openai \in {None, Some("client")}
    /\ initRan = IF openai = None THEN "never" ELSE "key"
    /\ store = [c \in {} |-> <<>>]

\* beforeCreate / beforeUpdate: processDocumentEmbedding(event, action, strapi)
\* up to its first suspension
ProcessDocumentEmbedding ==
    /\ hookPc = "idle"
    /\ \E model \in Models, action \in {"create", "update"}, data \in Payloads :
          LET begun == hookBegin(openai, model, data)
          IN  /\ hookEvent' = Some([model |-> model, action |-> action, data |-> data])
              /\ hookData' = data
              /\ hookPc' = begun.pc
              /\ hookEmbedCalls' = begun.embedCalls
              /\ hookRequests' = begun.requests
              /\ hookEmbedded' = begun.embedded
    /\ UNCHANGED <<apiVars, cosVars, rankVars, searchVars, clientVars, normVars>>

\* the provider answers the request of the hook: generateEmbedding settles
\* and processDocumentEmbedding runs to its end
HookProviderAnswer ==
    /\ hookPc = "embedding"
    /\ \E answer \in HookAnswers, now \in Timestamps :
          LET settlement == generateEmbeddingEnd(hookEmbedCalls[1], hookRequests[1],
                                                 answer)
              ended == hookEnd(hookData, settlement, now)
          IN  /\ hookEmbedded' = Some(settlement)
              /\ hookRequests' = requestsAfter(hookRequests, hookRequests[1], answer)
              /\ hookPc' = ended.pc
              /\ hookData' = ended.data
    /\ UNCHANGED <<apiVars, cosVars, rankVars, searchVars, clientVars, normVars,
                   hookEvent, hookEmbedCalls>>

HookNext ==
    \/ ProcessDocumentEmbedding
    \/ HookProviderAnswer

SpecHook == HookInit /\ [][HookNext]_vars

---------------------------------------------------------------------------
(* The callers of semanticSearch: the search and multiSearch handlers of    *)
(* the controller and the searchWithFilters helper. A call runs from its    *)
(* request to its response in one step; the answers of the provider and the *)
(* outcomes of the store are inputs of the step.                            *)

\* what a run of a service method leaves: its settlement, the answers the
\* provider gave to its requests and its findMany calls
Ran(outcome, answers, queries) ==
    [outcome |-> outcome, answers |-> answers, queries |-> queries]

\* semanticSearch from its findMany call (with args) on: the call throws
\* storeError or returns the matching documents of the collection
searchFound(query, contentType, options, result, answer, args, storeError) ==
    Ran(afterFindMany(query, contentType, options, Get(result.value),
                      IF storeError = None
                      THEN Return(findMany(store[contentType], args))
                      ELSE Throw(Get(storeError))),
        <<answer>>,
        <<[contentType |-> contentType, args |-> args]>>)

\* semanticSearch from the settlement (result) of generateEmbedding on
\* (next: what afterEmbedding makes of it)
searchEmbedded(query, contentType, options, result, next, answer, storeError) ==
    IF next.settles THEN Ran(next.outcome, <<answer>>, <<>>)
    ELSE searchFound(query, contentType, options, result, answer,
                     findManyArgs(searchOptionsOf(options)), storeError)

\* semanticSearch from its first suspension (begun) on
searchBegun(begun, query, contentType, options, answer, storeError, result) ==
    IF begun.settled # None THEN Ran(Get(begun.settled), <<>>, <<>>)
    ELSE searchEmbedded(query, contentType, options, result, afterEmbedding(result),
                        answer, storeError)

\* one whole semanticSearch call, the provider answering its request with
\* `answer` and the store its findMany call with storeError (None: with the
\* documents)
semanticSearch(query, contentType, options, answer, storeError) ==
    searchBegun(beginSearch(query, contentType), query, contentType, options,
                answer, storeError,
                generateEmbeddingEnd(query, preprocessText(query), answer))

RECURSIVE Flatten(_)
\* the concatenation of a sequence of sequences
Flatten(seqs) ==
    IF seqs = <<>> THEN <<>> ELSE Head(seqs) \o Flatten(Tail(seqs))

\* multiContentTypeSearch from the settlement of every sub-search (runs) on
multiSettled(query, contentTypes, options, runs) ==
    Ran(afterPromiseAll(query, contentTypes, options,
            [i \in 1..Len(runs) |->
                subSearchCatch(query, contentTypes[i], runs[i].outcome)]),
        Flatten([i \in 1..Len(runs) |-> runs[i].answers]),
        Flatten([i \in 1..Len(runs) |-> runs[i].queries]))

\* one whole multiContentTypeSearch call; outcomes[i] holds the answer of the
\* provider and the outcome of the store for the sub-search of contentTypes[i]
multiContentTypeSearch(query, contentTypes, options, outcomes) ==
    IF query = <<>> \/ Len(contentTypes) = 0
    THEN Ran(Throw(Error("Query and content types array are required")), <<>>, <<>>)
    ELSE multiSettled(query, contentTypes, options,
             [i \in 1..Len(contentTypes) |->
                 semanticSearch(query, contentTypes[i], subSearchOptions(options),
                                outcomes[i].answer, outcomes[i].storeError)])

\* Object.assign(target, source) on filter objects
assign(target, source) ==
    [f \in DOMAIN target \cup DOMAIN source |->
        IF f \in DOMAIN source THEN source[f] ELSE target[f]]

\* the date range filter of searchWithFilters: createdAt: { $gte, $lte }
dateFilters(filters) ==
    IF filters.dateFrom # None \/ filters.dateTo # None
    THEN [f \in {"createdAt"} |-> "$range"]
    ELSE NoFilters

\* the status filter of searchWithFilters
statusFilters(filters) ==
    IF filters.publishedAt = Some("published")
    THEN [f \in {"publishedAt"} |-> "$notNull"]
    ELSE IF filters.publishedAt = Some("draft")
    THEN [f \in {"publishedAt"} |-> "$null"]
    ELSE NoFilters

\* searchFilters of searchWithFilters
searchFiltersOf(filters) ==
    assign(assign(dateFilters(filters), statusFilters(filters)),
           Default(filters.customFields, NoFilters))

\* searchWithFilters: semanticSearch with { ...options, filters: searchFilters }
searchWithFilters(query, contentType, filters, options, answer, storeError) ==
    semanticSearch(query, contentType,
                   [options EXCEPT !.filters = Some(searchFiltersOf(filters))],
                   answer, storeError)

\* values of a request body
NumberValue(n) == [type |-> "number", number |-> n, text |-> <<>>, bool |-> FALSE]
StringValue(t) == [type |-> "string", number |-> 0, text |-> t, bool |-> FALSE]
BooleanValue(b) == [type |-> "boolean", number |-> 0, text |-> <<>>, bool |-> b]

\* a value of a body with its destructuring default
BodyDefault(value, default) == IF value = None THEN default ELSE Get(value)

\* NaN as the result of parseInt and Math.min
NotANumber == [nan |-> TRUE, n |-> 0]
Number(n) == [nan |-> FALSE, n |-> n]

Digits == <<"0", "1", "2", "3", "4", "5", "6", "7", "8", "9">>
IsDigit(c) == \E d \in 1..10 : Digits[d] = c
DigitValue(c) == (CHOOSE d \in 1..10 : Digits[d] = c) - 1

RECURSIVE digitsValue(_, _)
\* the value of the leading digits of t, after the digits of value acc
digitsValue(t, acc) ==
    IF t # <<>> /\ IsDigit(Head(t))
    THEN digitsValue(Tail(t), 10 * acc + DigitValue(Head(t)))
    ELSE acc

\* parseInt of a text once its leading white space is gone: a sign, then
\* digits up to the first character that is none; NaN without a digit
parseSigned(t) ==
    LET signed == t # <<>> /\ Head(t) \in {"-", "+"}
        digits == IF signed THEN Tail(t) ELSE t
    IN  IF digits = <<>> \/ ~IsDigit(Head(digits)) THEN NotANumber
        ELSE IF signed /\ Head(t) = "-" THEN Number(-digitsValue(digits, 0))
        ELSE Number(digitsValue(digits, 0))

\* parseInt(value): an integer is its own value
parseInt(value) ==
    IF value.type = "number" THEN Number(value.number)
    ELSE IF value.type = "string" THEN parseSigned(trimStart(value.text))
    ELSE NotANumber

\* Math.min(x, y), y a number
mathMin(x, y) ==
    IF x.nan THEN NotANumber ELSE IF x.n < y THEN x ELSE Number(y)

\* parseFloat(value) as a score: a number is its own value; of a text the
\* leading integer (the texts of the model hold no decimal point)
parseFloat(value) ==
    IF value.type = "number" THEN value.number
    ELSE IF parseInt(value).nan THEN NaN
    ELSE [nan |-> FALSE, n |-> parseInt(value).n * Abs(parseInt(value).n), d |-> 1]

\* the 50 of Math.min(parseInt(limit), 50)
hardCeiling == 50

\* Math.min(parseInt(limit), 50)
clampLimit(limit) == mathMin(parseInt(limit), hardCeiling)

\* the limit as the service uses it: Math.ceil(NaN * 1.5) is NaN and
\* slice(0, NaN) is slice(0, 0), so a NaN limit shapes every list as 0 does
\* (metadata.searchOptions.limit echoes 0 in the model where the code echoes
\* NaN)
limitOption(limit) == Some(IF limit.nan THEN 0 ELSE limit.n)

\* searchOptions of the search handler
searchBodyOptions(body) ==
    [limit |-> limitOption(clampLimit(BodyDefault(body.limit, NumberValue(defaultLimit)))),
     threshold |-> Some(parseFloat(BodyDefault(body.threshold, NumberValue(defaultThreshold)))),
     filters |-> Some(BodyDefault(body.filters, NoFilters)),
     locale |-> None,
     aggregateResults |-> None,
     includeEmbedding |-> Some(FALSE)]

\* aggregateResults === true || aggregateResults === 'true'
isTrue(value) ==
    \/ value.type = "boolean" /\ value.bool
    \/ value.type = "string" /\ value.text = <<"t", "r", "u", "e">>

\* searchOptions of the multiSearch handler
multiSearchBodyOptions(body) ==
    [limit |-> limitOption(clampLimit(BodyDefault(body.limit, NumberValue(defaultLimit)))),
     threshold |-> Some(parseFloat(BodyDefault(body.threshold, NumberValue(defaultThreshold)))),
     filters |-> None,
     locale |-> None,
     aggregateResults |-> Some(isTrue(BodyDefault(body.aggregateResults, BooleanValue(TRUE)))),
     includeEmbedding |-> None]

\* ctx.body = { success: true, data }
ok(data) ==
    [status |-> 200, data |-> Some(data), message |-> <<>>, error |-> None]

\* ctx.badRequest(message)
badRequest(message) ==
    [status |-> 400, data |-> None, message |-> message, error |-> None]

\* ctx.internalServerError(message, { error })
internalServerError(message, error) ==
    [status |-> 500, data |-> None, message |-> message, error |-> Some(error)]

\* the end of a handler: the response to the settlement of its service call
\* (the catch block answers with `failure` and error.message)
handlerReplied(ran, failure) ==
    [response |->
         IF ran.outcome.threw
         THEN internalServerError(<<failure>>, Get(ran.outcome.error).message)
         ELSE ok(Get(ran.outcome.value)),
     answers |-> ran.answers,
     queries |-> ran.queries]

\* a handler that answers before it calls the service
rejected(reply) == [response |-> reply, answers |-> <<>>, queries |-> <<>>]

\* strapi.contentTypes: the registered content types
ContentTypes == Collections

\* the search handler
search(body, answer, storeError) ==
    IF body.query = <<>> THEN rejected(badRequest(<<"Query is required">>))
    ELSE IF body.contentType = ""
    THEN rejected(badRequest(<<"Content type is required">>))
    ELSE IF body.contentType \notin ContentTypes
    THEN rejected(badRequest(<<"Content type ", body.contentType, " not found">>))
    ELSE handlerReplied(semanticSearch(body.query, body.contentType,
                                       searchBodyOptions(body), answer, storeError),
                        "Search failed")

\* the multiSearch handler; body.contentTypes is None when the body holds no
\* array there
multiSearch(body, outcomes) ==
    IF body.query = <<>> THEN rejected(badRequest(<<"Query is required">>))
    ELSE IF body.contentTypes = None \/ Len(Get(body.contentTypes)) = 0
    THEN rejected(badRequest(<<"Content types array is required">>))
    ELSE IF \E i \in 1..Len(Get(body.contentTypes)) :
                Get(body.contentTypes)[i] \notin ContentTypes
    THEN rejected(badRequest(
             <<"Content type ",
               Get(body.contentTypes)[
                   CHOOSE i \in 1..Len(Get(body.contentTypes)) :
                       /\ Get(body.contentTypes)[i] \notin ContentTypes
                       /\ \A j \in 1..(i - 1) :
                             Get(body.contentTypes)[j] \in ContentTypes],
               " not found">>))
    ELSE handlerReplied(multiContentTypeSearch(body.query, Get(body.contentTypes),
                                               multiSearchBodyOptions(body), outcomes),
                        "Multi-search failed")

---------------------------------------------------------------------------
(* Specification of the callers of semanticSearch: one request to the       *)
(* search or multiSearch handler, or one searchWithFilters call.            *)

\* a collection of more documents than the ceiling of the handlers, all with
\* the same vector
LargeContents == [k \in 1..(hardCeiling + 2) |-> Document(k, Some(<<1, 0>>))]

ApiStores ==
    {[articles |-> GoodContents, blogs |-> MixedContents],
     [articles |-> LargeContents, blogs |-> BareContents]}

\* the limit of a body: absent, above the ceiling, zero, negative, small,
\* and the texts "abc" and "5"
BodyLimits ==
    {None, Some(NumberValue(60)), Some(NumberValue(0)), Some(NumberValue(-1)),
     Some(NumberValue(2)), Some(StringValue(<<"a", "b", "c">>)),
     Some(StringValue(<<"5">>))}

\* the threshold of a body: absent, 0.5, and the text "abc"
BodyThresholds ==
    {None, Some(NumberValue([nan |-> FALSE, n |-> 1, d |-> 4])),
     Some(StringValue(<<"a", "b", "c">>))}

\* the filters of a body: absent, a filter on another field, and a filter on
\* the vector field
BodyFilters ==
    {None,
     Some([f \in {"embeddingMetadata"} |-> "$notNull"]),
     Some([f \in {"embedding"} |-> "$null"])}

SearchBodies ==
    [query : QueryTexts,
     contentType : {"", "ghosts"} \cup Collections,
     limit : BodyLimits,
     threshold : BodyThresholds,
     filters : BodyFilters]

MultiSearchBodies ==
    [query : QueryTexts,
     contentTypes : {None, Some(<<>>), Some(<<"articles">>),
                     Some(<<"blogs", "articles">>), Some(<<"articles", "articles">>),
                     Some(<<"articles", "ghosts">>)},
     limit : BodyLimits,
     threshold : {None, Some(StringValue(<<"a", "b", "c">>))},
     aggregateResults : {None, Some(StringValue(<<"t", "r", "u", "e">>)),
                         Some(BooleanValue(FALSE))}]

\* the filters handed to searchWithFilters
HelperFilters ==
    [dateFrom : {None, Some("2024-01-01")},
     dateTo : {None},
     publishedAt : {None, Some("published"), Some("draft"), Some("archived")},
     customFields : {None,
                     Some([f \in {"embedding"} |-> "$null"]),
                     Some([f \in {"publishedAt"} |-> "$null"])}]

\* the answers of the provider to a request of a call
ApiAnswers == ProviderAnswers \cup EmbedAnswers

\* the outcome of the findMany call of a sub-search: the documents, or an error
StoreOutcomes == {None} \cup {Some(e) : e \in StoreErrors}

\* the answer of the provider and the outcome of the store for one sub-search
\* of a multiSearch request
SubOutcomes ==
    [answer : ProviderAnswers, storeError : {None}]
        \cup [answer : {Return(Some(<<1, 0>>))}, storeError : StoreOutcomes]

\* the number of sub-searches a multiSearch body asks for
TypesOf(body) ==
    IF body.contentTypes = None THEN 0 ELSE Len(Get(body.contentTypes))

ApiInit ==
    /\ CosIdle
    /\ RankIdle
    /\ SearchIdle
    /\ ClientIdle
    /\ NormIdle
    /\ HookIdle
    /\ ApiIdle
    /\ openai \in {None, Some("client")}
    /\ initRan = IF openai = None THEN "never" ELSE "key"
    /\ store \in ApiStores

\* the state after a call that has `replied`
Replied(request, replied) ==
    /\ apiRequest' = Some(request)
    /\ apiAnswers' = replied.answers
    /\ apiFindMany' = replied.queries
    /\ apiResponse' = Some(replied.response)
    /\ UNCHANGED <<cosVars, rankVars, searchVars, clientVars, normVars, hookVars>>

\* POST search
Search ==
    /\ apiRequest = None
    /\ \E body \in SearchBodies, answer \in ApiAnswers, storeError \in StoreOutcomes :
          Replied([handler |-> "search", body |-> body],
                  search(body, answer, storeError))

\* POST multi-search
MultiSearch ==
    /\ apiRequest = None
    /\ \E body \in MultiSearchBodies :
       \E outcomes \in [1..TypesOf(body) -> SubOutcomes] :
          Replied([handler |-> "multiSearch", body |-> body],
                  multiSearch(body, outcomes))

\* searchWithFilters(query, contentType, filters, options)
SearchWithFilters ==
    /\ apiRequest = None
    /\ \E contentType \in Collections, filters \in HelperFilters,
          options \in {Options(None, None, None, None), Options(Some(2), None, None, None)},
          answer \in ApiAnswers, storeError \in StoreOutcomes :
          LET query == <<"<", "b", ">", "H", "e", "l", "l", "o", " ", "w", "o", "r", "l", "d">>
              ran == searchWithFilters(query, contentType, filters, options,
                                       answer, storeError)
          IN  Replied([handler |-> "searchWithFilters",
                       body |-> [query |-> query, contentType |-> contentType,
                                 filters |-> filters, options |-> options]],
                      [response |-> ran.outcome, answers |-> ran.answers,
                       queries |-> ran.queries])

ApiNext ==
    \/ Search
    \/ MultiSearch
    \/ SearchWithFilters

SpecApi == ApiInit /\ [][ApiNext]_vars

---------------------------------------------------------------------------
(* vector-service.js: getEmbeddingStats, and the getStats handler *)

\* strapi.documents(type).count({ filters }): the number of documents of the
\* collection that match every filter
count(documents, filters) ==
    Cardinality({k \in 1..Len(documents) :
                    \A f \in DOMAIN filters : matchesFilter(documents[k], f, filters[f])})

RECURSIVE decimalText(_)
\* the decimal digits of a natural number, as a text
decimalText(n) ==
    IF n < 10 THEN <<Digits[n + 1]>>
    ELSE Append(decimalText(n \div 10), Digits[(n % 10) + 1])

\* a mutant of hundredthsOf: the digits after the second decimal are cut
hundredthsOf_Truncated(withEmbeddings, total) ==
    (10000 * withEmbeddings) \div total

\* withEmbeddings / total * 100 in hundredths, as toFixed(2) rounds it: to
\* the nearest hundredth, upwards from the middle (computed on the exact
\* quotient)
hundredthsOf(withEmbeddings, total) ==
    (2 * 10000 * withEmbeddings + total) \div (2 * total)

\* n.toFixed(2) of the number of `hundredths`
toFixed(hundredths) ==
    decimalText(hundredths \div 100)
        \o <<".", Digits[((hundredths % 100) \div 10) + 1], Digits[(hundredths % 10) + 1]>>

\* total > 0 ? (withEmbeddings / total * 100).toFixed(2) + '%' : '0%'
coverageOf(withEmbeddings, total) ==
    IF total > 0 THEN Append(toFixed(hundredthsOf(withEmbeddings, total)), "%")
    ELSE <<"0", "%">>

\* the entry of one content type in stats
statsEntry(documents) ==
    [total |-> count(documents, NoFilters),
     withEmbeddings |-> count(documents, [f \in {"embedding"} |-> "$notNull"]),
     coverage |->
         coverageOf(count(documents, [f \in {"embedding"} |-> "$notNull"]),
                    count(documents, NoFilters))]

\* Object.keys(strapi.contentTypes).filter(type => ...): the registered
\* content types that are neither of the admin nor of a plugin
statsTypes(registered) ==
    {type \in registered : ~StartsWith(type, "admin") /\ ~StartsWith(type, "plugin")}

\* getEmbeddingStats(contentType): `failing` are the content types whose
\* count calls throw
getEmbeddingStats(contentType, failing) ==
    IF contentType # None
    THEN IF Get(contentType) \in failing THEN Throw(Error("Database unavailable"))
         ELSE Return([type \in {Get(contentType)} |-> statsEntry(store[type])])
    ELSE Return([type \in statsTypes(DOMAIN store) \ failing |-> statsEntry(store[type])])

\* the getStats handler; query.contentType is None when the query holds none
getStats(query, failing) ==
    handlerReplied(Ran(getEmbeddingStats(query.contentType, failing), <<>>, <<>>),
                   "Failed to get stats")

---------------------------------------------------------------------------
(* Specification of the statistics: one request to the getStats handler *)

\* largest number of documents of the collection the statistics are about
MaxCount == 10

\* a collection of `total` documents, the first `withEmbeddings` with a vector
CountedContents(total, withEmbeddings) ==
    [k \in 1..total |->
        Document(k, IF k <= withEmbeddings THEN Some(<<1, 0>>) ELSE None)]

\* the registered content types
Registered ==
    {<<"api", "article.article">>, <<"api", "blog.blog">>, <<"admin", "user">>,
     <<"plugin", "upload.file">>}

\* the stores of the statistics: every number of articles with every number
\* of vectors among them
StatsStores ==
    {[type \in Registered |->
         IF type = <<"api", "article.article">>
         THEN CountedContents(total, IF n > total THEN total ELSE n)
         ELSE IF type = <<"api", "blog.blog">> THEN CountedContents(3, 2)
         ELSE CountedContents(1, 0)] :
        total \in 0..MaxCount, n \in 0..MaxCount}

StatsInit ==
    /\ CosIdle
    /\ RankIdle
    /\ SearchIdle
    /\ ClientIdle
    /\ NormIdle
    /\ HookIdle
    /\ ApiIdle
    /\ openai = None
    /\ initRan = "never"
    /\ store \in StatsStores

\* GET stats
GetStats ==
    /\ apiRequest = None
    /\ \E contentType \in {None} \cup {Some(type) : type \in Registered},
          failing \in SUBSET {<<"api", "article.article">>, <<"api", "blog.blog">>} :
          Replied([handler |-> "getStats", body |-> [contentType |-> contentType]],
                  getStats([contentType |-> contentType], failing))

StatsNext == GetStats

SpecStats == StatsInit /\ [][StatsNext]_vars

---------------------------------------------------------------------------
(* Properties of the similarity engine *)

\* the scored results of the searchSimilar call of this state
Results == Get(scoredResults)

\* the candidates of the call whose similarity computation fails: they hold a
\* vector whose length differs from the query's
FailingIds ==
    {i \in 1..Len(rankDocuments) :
        /\ rankDocuments[i].embedding # None
        /\ Len(Get(rankDocuments[i].embedding)) # Len(Get(rankQuery))}

\* the exact score of candidate i, for a candidate with a vector of the
\* query's length
ExactScore(i) ==
    LET q == Get(rankQuery)
        e == Get(rankDocuments[i].embedding)
        dot == SumProducts(q, e, Len(q))
        mq == SumProducts(q, q, Len(q))
        me == SumProducts(e, e, Len(e))
    IN  IF mq = 0 \/ me = 0 THEN Zero
        ELSE [nan |-> FALSE, n |-> dot * Abs(dot), d |-> mq * me]

\* the candidates with a vector and a score >= threshold
EligibleIds ==
    {i \in 1..Len(rankDocuments) :
        /\ rankDocuments[i].embedding # None
        /\ i \notin FailingIds
        /\ ScoreGE(ExactScore(i), Get(rankOptions).threshold)}

\* C4: rank (searchSimilar) returns at most `limit` elements (none for a
\* limit below 0), each with similarityScore >= threshold, for every integer
\* limit
C4_AtMostLimitAboveThreshold ==
    scoredResults # None =>
        /\ Len(Results) <= (IF Get(rankOptions).limit < 0 THEN 0
                            ELSE Get(rankOptions).limit)
        /\ \A k \in 1..Len(Results) :
              ScoreGE(Results[k].similarityScore, Get(rankOptions).threshold)

\* C5: the output of rank is sorted non-increasing by similarityScore, and
\* results with equal scores keep the order in which the store returned them
C5_SortedAndStable ==
    scoredResults # None =>
        \A i, j \in 1..Len(Results) :
            i < j =>
                /\ ScoreGE(Results[i].similarityScore, Results[j].similarityScore)
                /\ ScoreEQ(Results[i].similarityScore, Results[j].similarityScore)
                      => Results[i].documentId < Results[j].documentId

\* C5 witness: a ranking that moved a later candidate in front of an earlier
\* one and that holds a tie
C5_Witness ==
    /\ scoredResults # None
    /\ Len(Results) = 3
    /\ ScoreEQ(Results[2].similarityScore, Results[3].similarityScore)
    /\ ScoreGT(Results[1].similarityScore, Results[2].similarityScore)
    /\ Results[1].documentId > Results[2].documentId

\* C6: the result is exactly the top-`limit` eligible candidates: eligible
\* candidates only, each once, min(limit, number eligible) of them (none for a
\* limit below 0), sorted descending, and no omitted eligible candidate scores
\* strictly higher than a returned one
C6_ExactTopLimit ==
    scoredResults # None =>
        LET limit == Get(rankOptions).limit
            want == IF limit < 0 THEN 0
                    ELSE IF limit < Cardinality(EligibleIds) THEN limit
                    ELSE Cardinality(EligibleIds)
            returned == {Results[k].documentId : k \in 1..Len(Results)}
        IN  /\ Len(Results) = want
            /\ Cardinality(returned) = Len(Results)
            /\ returned \subseteq EligibleIds
            /\ \A k \in 1..Len(Results) :
                  Results[k].similarityScore = ExactScore(Results[k].documentId)
            /\ \A i, j \in 1..Len(Results) :
                  i < j => ScoreGE(Results[i].similarityScore, Results[j].similarityScore)
            /\ \A i \in EligibleIds \ returned, r \in returned :
                  ~ScoreGT(ExactScore(i), ExactScore(r))

\* the candidates left when the failing ones are removed
RemainingDocuments ==
    SelectSeq(rankDocuments, LAMBDA doc : doc.documentId \notin FailingIds)

\* C7: candidates whose similarity computation fails are dropped without
\* aborting the ranking: the call returns, no failing candidate is in the
\* result, and the result is the ranking of the remaining candidates
C7_FailingCandidatesDropped ==
    rankQuery # None =>
        /\ scoredResults # None
        /\ \A k \in 1..Len(Results) : Results[k].documentId \notin FailingIds
        /\ Results = rankDocumentsOf(Get(rankQuery), RemainingDocuments,
                                     Get(rankOptions))

\* C7 witness: a failing candidate stands between two candidates that are
\* both returned
C7_Witness ==
    /\ scoredResults # None
    /\ 2 \in FailingIds
    /\ Len(rankDocuments) = 3
    /\ Len(Results) = 2

\* is v the zero vector
IsZeroVector(v) == \A i \in 1..Len(v) : v[i] = 0

\* C8: cosineSimilarity fails with DimensionMismatch, and returns no number,
\* whenever the lengths differ or either vector is absent or empty, both
\* empty included
C8_MismatchOrEmptyFails ==
    (/\ similarity # None
     /\ \/ vectorA = None
        \/ vectorB = None
        \/ Len(Get(vectorA)) # Len(Get(vectorB))
        \/ Len(Get(vectorA)) = 0
        \/ Len(Get(vectorB)) = 0)
    => /\ Get(similarity).threw
       /\ Get(similarity).value = None

\* C9: for a zero vector z and a vector v of the same non-zero length,
\* cosineSimilarity(z, v) and cosineSimilarity(v, z) return exactly 0
C9_ZeroVectorGivesZero ==
    (/\ similarity # None
     /\ vectorA # None
     /\ vectorB # None
     /\ Len(Get(vectorA)) = Len(Get(vectorB))
     /\ Len(Get(vectorA)) > 0
     /\ IsZeroVector(Get(vectorA)) \/ IsZeroVector(Get(vectorB)))
    => /\ ~Get(similarity).threw
       /\ Get(similarity).value = Some(Zero)

\* C9 witness: cosineSimilarity(v, z) with v non-zero and z zero has returned
C9_Witness ==
    /\ similarity # None
    /\ vectorA = Some(<<1, 2>>)
    /\ vectorB = Some(<<0, 0>>)
    /\ ~Get(similarity).threw

---------------------------------------------------------------------------
(* Properties of the search orchestrator *)

\* a semanticSearch call is in progress or settled
IsSearch == call # None /\ Get(call).kind = "semanticSearch"

\* a multiContentTypeSearch call with a query and a non-empty list of content
\* types is in progress or settled
IsMultiSearch ==
    /\ call # None
    /\ Get(call).kind = "multiContentTypeSearch"
    /\ Get(call).query # <<>>
    /\ Len(Get(call).contentTypes) > 0

\* sub-search i has failed / has succeeded
Failed(i) == settled[i] # None /\ Get(settled[i]).threw
Succeeded(i) == settled[i] # None /\ ~Get(settled[i]).threw

\* the generateEmbedding call of sub-search i has failed
EmbeddingFailed(i) == embedded[i] # None /\ Get(embedded[i]).threw

\* the block of sub-search i in searchResults
Block(i) == Get(Get(searchResults[i]).value)

\* the body of the successful response of the call
Body == Get(Get(response).value)

\* does the call aggregate
Aggregates == Default(Get(call).options.aggregateResults, TRUE)

\* the global limit of the call
GlobalLimit == Default(Get(call).options.limit, defaultLimit)

RECURSIVE SumOver(_, _)
\* the sum of f[i] for i in 1..n
SumOver(f, n) == IF n = 0 THEN 0 ELSE SumOver(f, n - 1) + f[n]

\* the number of results of the successful sub-searches
TotalResults ==
    SumOver([i \in 1..Len(pc) |-> IF Succeeded(i) THEN Len(Block(i).results) ELSE 0],
            Len(pc))

\* C1: semanticSearch is fail-closed: when the embedding call for the query
\* fails with error E, the search fails with that same E, issues no findMany
\* call and returns no success response
C1_SearchFailClosed ==
    IsSearch =>
        \A i \in 1..Len(embedded) :
            EmbeddingFailed(i) =>
                /\ findManyCalls = <<>>
                /\ response = Some(Throw(Get(Get(embedded[i]).error)))

\* C1 witness: the provider refused the query for lack of quota and the
\* search has settled
C1_Witness ==
    /\ IsSearch
    /\ providerCalls = <<1>>
    /\ embedded = <<Some(Throw(Error("OpenAI API quota exceeded")))>>
    /\ response # None

C10_AggregatedList ==
    (IsMultiSearch /\ response # None /\ ~Get(response).threw /\ Aggregates) =>
        LET c == Get(call)
            results == Body.results
        IN  /\ \A m \in 1..Len(results) :
                  \E i \in 1..Len(pc) :
                      /\ Succeeded(i)
                      /\ results[m].contentType = c.contentTypes[i]
                      /\ \E k \in 1..Len(Block(i).results) :
                            results[m] = tagResult(Block(i).results[k], c.contentTypes[i])
            /\ \A i, j \in 1..Len(results) :
                  i < j => ScoreGE(results[i].similarityScore, results[j].similarityScore)
            /\ Len(results) <= IF GlobalLimit < 0 THEN 0 ELSE GlobalLimit

\* C11: in separate mode multiContentTypeSearch returns one block per
\* requested collection, in request order and as the sub-search produced it
\* (the error entry for a failed one), and successfulSearches is the number of
\* sub-searches that did not fail, whatever the failure and its message
C11_SeparateBlocks ==
    (IsMultiSearch /\ response # None /\ ~Get(response).threw /\ ~Aggregates) =>
        LET c == Get(call)
            n == Len(c.contentTypes)
        IN  /\ Len(Body.results) = n
            /\ \A i \in 1..n :
                  /\ Body.results[i].contentType = c.contentTypes[i]
                  /\ Succeeded(i) => Body.results[i] = Get(Get(settled[i]).value)
                  /\ Failed(i) =>
                        /\ Body.results[i].results = <<>>
                        /\ Body.results[i].error =
                              Some(Get(Get(settled[i]).error).message)
            /\ Body.metadata.totalContentTypes = n
            /\ Body.metadata.successfulSearches =
                  Cardinality({i \in 1..n : Succeeded(i)})

---------------------------------------------------------------------------
(* Properties of the embedding client *)

\* a generateEmbedding call from outside is in progress or settled
IsEmbed == embedCall # None /\ Get(embedCall).kind = "generateEmbedding"

\* a generateBatchEmbeddings call with texts is in progress or settled
IsBatch ==
    /\ embedCall # None
    /\ Get(embedCall).kind = "generateBatchEmbeddings"
    /\ Len(Get(embedCall).texts) > 0

\* the texts of the call
Texts == Get(embedCall).texts

\* the items of the current group whose generateEmbedding has failed
FailedItems ==
    {k \in 1..Len(items) : items[k].outcome # None /\ Get(items[k].outcome).threw}

\* C12: generateBatchEmbeddings preserves the input order whatever the order
\* in which the provider answers: on success the result holds one entry per
\* text, and entry i is the embedding result of text i, in a group and across
\* groups
C12_BatchKeepsInputOrder ==
    (IsBatch /\ embedResponse # None /\ ~Get(embedResponse).threw) =>
        LET list == Get(Get(embedResponse).value)
        IN  /\ Len(list) = Len(Texts)
            /\ \A i \in 1..Len(list) :
                  /\ list[i].originalLength = Len(Texts[i])
                  /\ list[i].processedText = preprocessText(Texts[i])
                  /\ list[i].processedLength = Len(preprocessText(Texts[i]))
                  /\ list[i].embedding # None

\* C12 witness: a batch of two groups has succeeded, and the provider
\* answered a request before a request of an earlier text
C12_Witness ==
    /\ IsBatch
    /\ Len(Texts) > batchSize
    /\ embedResponse # None
    /\ ~Get(embedResponse).threw
    /\ overtaken

\* C13: generateBatchEmbeddings is all-or-nothing: once the embedding of an
\* item has failed, the call has failed with the error of a failed item and
\* returns no list, the results of the groups before included, only texts up
\* to the end of that group were sent to the provider, and no request is
\* issued from then on
C13_BatchAllOrNothing ==
    /\ [](IsBatch /\ FailedItems # {} =>
            /\ embedResponse # None
            /\ Get(embedResponse).threw
            /\ Get(embedResponse).value = None
            /\ \E k \in FailedItems :
                  Get(embedResponse).error = Get(items[k].outcome).error
            /\ \A r \in 1..Len(requests) :
                  \E j \in 1..(groupStart + Len(items)) :
                      requests[r] = preprocessText(Texts[j]))
    /\ [][IsBatch /\ FailedItems # {} => requests' = requests \/ embedCall' = None]_vars

\* C13 witness: the first group of a batch was embedded, and the call has
\* failed in its second group
C13_Witness ==
    /\ IsBatch
    /\ groupStart = batchSize
    /\ Len(batchResults) = batchSize
    /\ FailedItems # {}
    /\ embedResponse # None

\* C14: while no init has run with an API key, the provider handle stays
\* unset, and every generateEmbedding fails with ProviderNotConfigured before
\* it looks at its text and without a provider request
C14_NotConfiguredFailsFirst ==
    initRan # "key" =>
        /\ openai = None
        /\ (IsEmbed \/ IsBatch) =>
              /\ \A k \in 1..Len(items) :
                    /\ items[k].outcome = Some(Throw(ProviderNotConfigured))
                    /\ items[k].answer = None
              /\ requests = <<>>
              /\ embedResponse = Some(Throw(ProviderNotConfigured))

\* C14 witness: init has run without an API key, and generateEmbedding was
\* called with an empty text
C14_Witness ==
    /\ initRan = "no key"
    /\ IsEmbed
    /\ Texts = <<<<>>>>
    /\ embedResponse # None

\* the error generateEmbedding is to throw when the provider failed with e
Classified(e) ==
    CASE e.code = "insufficient_quota" -> QuotaExceeded
      [] e.code = "invalid_api_key" -> InvalidCredentials
      [] e.code = "rate_limit_exceeded" -> RateLimited
      [] OTHER -> e

ShortItems ==
    {k \in 1..Len(items) :
        /\ items[k].client # None
        /\ Len(preprocessText(items[k].text)) < minLength}

\* C16 as stated: generateEmbedding fails with TextTooShort, without a
\* provider request, for every text whose normalized form has fewer than 10
\* characters, the empty and the whitespace-only text included
C16_ShortTextFailsTooShort ==
    (IsEmbed \/ IsBatch) =>
        \A k \in ShortItems :
            /\ items[k].outcome = Some(Throw(TextTooShort))
            /\ items[k].answer = None
            /\ preprocessText(items[k].text) \notin
                   {requests[r] : r \in 1..Len(requests)}

\* C16 as amended: without a provider request, generateEmbedding fails with
\* InvalidInput for an empty or whitespace-only text and with TextTooShort
\* for every other text whose normalized form has fewer than 10 characters
C16_EmptyIsInvalidShortIsTooShort ==
    (IsEmbed \/ IsBatch) =>
        \A k \in ShortItems :
            /\ items[k].outcome =
                   Some(Throw(IF Len(trim(items[k].text)) = 0 THEN InvalidInput
                              ELSE TextTooShort))
            /\ items[k].answer = None
            /\ preprocessText(items[k].text) \notin
                   {requests[r] : r \in 1..Len(requests)}
            /\ IsEmbed => requests = <<>>

\* C16 witness: generateEmbedding was called, with a provider handle, with a
\* text that is a tag after a space and so normalizes to the empty text
C16_Witness ==
    /\ IsEmbed
    /\ openai # None
    /\ Texts = << <<" ", "<", "b", ">">> >>
    /\ embedResponse = Some(Throw(TextTooShort))

---------------------------------------------------------------------------
(* Properties of the normalizer *)

\* the text preprocessText has returned
Normalized == Get(normOutput)

\* the text after tag replacement, whitespace collapsing and trimming
Cleaned == trim(collapseWhitespace(replaceTags(Get(normInput))))

\* C17: when the normalized text is within the limit, the output of
\* preprocessText holds no "<" with a ">" after it, no whitespace but single
\* spaces between other characters, and a space where a tag stood
\* ("<p>Hello   world</p>" gives "Hello world", "a<>a" gives "a a")
C17_NormalizedForm ==
    (normOutput # None /\ Len(Normalized) <= maxLength) =>
        /\ \A i \in 1..Len(Normalized) :
              Normalized[i] = "<" =>
                  \A j \in (i + 1)..Len(Normalized) : Normalized[j] # ">"
        /\ \A i \in 1..Len(Normalized) :
              IsSpace(Normalized[i]) =>
                  /\ Normalized[i] = " "
                  /\ 1 < i
                  /\ i < Len(Normalized)
                  /\ ~IsSpace(Normalized[i + 1])
        /\ normInput = Some(HelloWorld) =>
              Normalized = <<"H", "e", "l", "l", "o", " ", "w", "o", "r", "l", "d">>
        /\ normInput = Some(<<"a", "<", ">", "a">>) => Normalized = <<"a", " ", "a">>

\* C17 witness: preprocessText has returned "Hello world" for
\* "<p>Hello   world</p>"
C17_Witness ==
    /\ normInput = Some(HelloWorld)
    /\ normOutput = Some(<<"H", "e", "l", "l", "o", " ", "w", "o", "r", "l", "d">>)

\* C18: the output of preprocessText is the first maxLength characters of
\* the cleaned text and the marker "..." when the cleaned text is longer than
\* maxLength, and the cleaned text itself otherwise
C18_TruncatedAtLimit ==
    normOutput # None =>
        IF Len(Cleaned) > maxLength
        THEN /\ Len(Normalized) = maxLength + 3
             /\ SubSeq(Normalized, 1, maxLength) = SubSeq(Cleaned, 1, maxLength)
             /\ SubSeq(Normalized, maxLength + 1, maxLength + 3) = <<".", ".", ".">>
        ELSE Normalized = Cleaned

\* C18 witness: a cleaned text of maxLength + 1 characters was cut after a
\* space and the marker appended
C18_Witness ==
    /\ normOutput # None
    /\ Len(Cleaned) = maxLength + 1
    /\ Normalized[maxLength] = " "
    /\ Len(Normalized) = maxLength + 3

---------------------------------------------------------------------------
(* Properties of the write hook *)

\* the hook has obtained an embedding
EmbeddingObtained ==
    /\ hookEmbedded # None
    /\ ~Get(hookEmbedded).threw
    /\ Get(Get(hookEmbedded).value).embedding # None

\* C19: the hook is fail-open: whatever the event, the outcome of the text
\* extraction and the outcome of the embedding call, the hook never throws,
\* and while no embedding was obtained the payload is what the event held
C19_HookFailOpen ==
    hookEvent # None =>
        /\ hookPc \in {"embedding", "returned"}
        /\ ~EmbeddingObtained => hookData = Get(hookEvent).data

\* C19 witness: the provider refused the request of the hook for lack of
\* quota, and the hook has returned
C19_Witness ==
    /\ hookPc = "returned"
    /\ Len(hookRequests) = 1
    /\ hookEmbedded = Some(Throw(QuotaExceeded))

\* the text the hook extracts from the payload of its event
Extracted ==
    extractTextContent(Get(hookEvent).data, modelNameOf(Get(hookEvent).model))

\* C20: when the text extracted from the payload has fewer than 10
\* characters, the hook returns without a generateEmbedding call and without
\* a provider request, and leaves the payload as it was
C20_ShortTextSkipped ==
    (hookEvent # None /\ ~Extracted.threw /\ Len(Get(Extracted.value)) < 10) =>
        /\ hookPc = "returned"
        /\ hookEmbedCalls = <<>>
        /\ hookRequests = <<>>
        /\ hookEmbedded = None
        /\ hookData = Get(hookEvent).data

\* C20 witness: with a provider handle, the hook has returned for a payload
\* whose text "123456789" has nine characters
C20_Witness ==
    /\ hookEvent # None
    /\ openai # None
    /\ ~skippedModel(modelNameOf(Get(hookEvent).model))
    /\ ~Extracted.threw
    /\ Len(Get(Extracted.value)) = 9
    /\ hookPc = "returned"

---------------------------------------------------------------------------
(* Properties of the results of the search orchestrator *)

\* does the call ask for the vectors
IncludesEmbedding == Default(Get(call).options.includeEmbedding, FALSE)

\* the result lists of the successful response of the call, each with the
\* collection it was computed from (None for the aggregated list, whose
\* results carry their collection themselves)
ResultLists ==
    IF IsSearch
    THEN {[contentType |-> Some(Get(call).contentTypes[1]), results |-> Body.results]}
    ELSE IF Aggregates
    THEN {[contentType |-> None, results |-> Body.results]}
    ELSE {[contentType |-> Some(Body.results[i].contentType),
           results |-> Body.results[i].results] : i \in 1..Len(Body.results)}

\* the documents of the store a result of the list stands for
StoredDocumentsOf(list, result) ==
    LET contentType ==
            IF list.contentType = None THEN result.contentType
            ELSE Get(list.contentType)
    IN  {store[contentType][k] : k \in 1..Len(store[contentType])}

\* the results of a successful response carry no vector and no vector
\* metadata unless the call asked for them, and then carry those of a
\* stored document
VectorsOnlyOnRequest ==
    (call # None /\ response # None /\ ~Get(response).threw) =>
        \A list \in ResultLists : \A k \in 1..Len(list.results) :
            LET result == list.results[k]
            IN  IF IncludesEmbedding
                THEN /\ {"embedding", "embeddingMetadata"} \subseteq DOMAIN result
                     /\ \E doc \in StoredDocumentsOf(list, result) :
                           /\ doc.documentId = result.documentId
                           /\ doc.embedding = result.embedding
                           /\ doc.embeddingMetadata = result.embeddingMetadata
                ELSE {"embedding", "embeddingMetadata"} \cap DOMAIN result = {}

\* C21: the results of search and of both modes of multiSearch carry no
\* embedding and no embeddingMetadata field when includeEmbedding is false or
\* absent and carry both when it is true, and no step of a call alters the
\* documents of the store
C21_VectorsStripped ==
    /\ []VectorsOnlyOnRequest
    /\ [][store' = store]_vars

\* C21 witness: an aggregated multi search without includeEmbedding, or a
\* multi search in separate mode with includeEmbedding, has answered with a
\* list of two results computed from documents that all hold a vector
C21_Witness ==
    /\ call # None
    /\ response # None
    /\ ~Get(response).threw
    /\ \/ IsMultiSearch /\ Aggregates /\ ~IncludesEmbedding
       \/ IsMultiSearch /\ ~Aggregates /\ IncludesEmbedding
    /\ \E list \in ResultLists : Len(list.results) = 2
    /\ \A i \in 1..Len(store[Get(call).contentTypes[1]]) :
          store[Get(call).contentTypes[1]][i].embedding # None

---------------------------------------------------------------------------
(* Properties of the callers of semanticSearch *)

\* the call in progress is one of `handler`
IsHandler(handler) == apiRequest # None /\ Get(apiRequest).handler = handler

\* the body of the request
ApiBody == Get(apiRequest).body

\* a request to the search or multiSearch handler was answered with `status`
Answered(status) ==
    /\ IsHandler("search") \/ IsHandler("multiSearch")
    /\ Get(apiResponse).status = status

\* the data of the answer to a request
ApiData == Get(Get(apiResponse).data)

\* the result lists of the answer: the list of search, the aggregated list,
\* or the list of every block
ApiResultLists ==
    IF IsHandler("search") THEN {ApiData.results}
    ELSE IF isTrue(BodyDefault(ApiBody.aggregateResults, BooleanValue(TRUE)))
    THEN {ApiData.results}
    ELSE {ApiData.results[i].results : i \in 1..Len(ApiData.results)}

\* the limit the request asks for: that of its body, 10 when it holds none
RequestedLimit == parseInt(BodyDefault(ApiBody.limit, NumberValue(defaultLimit)))

\* C22: whatever limit a request to search or multiSearch carries, every
\* result list of the answer (the list of search, the aggregated list, each
\* block) holds at most 50 results and at most as many as the limit asks for
C22_HardCeiling ==
    Answered(200) =>
        \A list \in ApiResultLists :
            /\ Len(list) <= hardCeiling
            /\ ~RequestedLimit.nan =>
                  Len(list) <= (IF RequestedLimit.n < 0 THEN 0 ELSE RequestedLimit.n)

\* the texts of the errors the provider answered the call with
RawProviderTexts ==
    {Get(apiAnswers[k].error).message :
        k \in {j \in 1..Len(apiAnswers) : apiAnswers[j].threw}}

\* the texts the code gives to the kinds of the taxonomy
KindTexts ==
    {ProviderNotConfigured.message, InvalidInput.message, TextTooShort.message,
     QuotaExceeded.message, InvalidCredentials.message, RateLimited.message}

\* C24: the server-error response to a search or multiSearch request that
\* failed at the provider carries the text of a kind of the taxonomy and never
\* the text of the provider's error
C24_NoRawProviderText ==
    (Answered(500) /\ RawProviderTexts # {}) =>
        /\ Get(Get(apiResponse).error) \in KindTexts
        /\ Get(Get(apiResponse).error) \notin RawProviderTexts

\* the filters of the caller: those of the body of a search request, those
\* searchWithFilters builds from its argument, none for multiSearch
CallerFilters ==
    IF IsHandler("search") THEN BodyDefault(ApiBody.filters, NoFilters)
    ELSE IF IsHandler("searchWithFilters") THEN searchFiltersOf(ApiBody.filters)
    ELSE NoFilters

\* C27: every findMany call of a search carries the embedding-present
\* predicate, every filter of the caller on another field and the ceiling
\* 1000, so that the store returns no document without a vector
C27_CandidateQueries ==
    apiRequest # None =>
        \A k \in 1..Len(apiFindMany) :
            LET args == apiFindMany[k].args
                found == findMany(store[apiFindMany[k].contentType], args)
            IN  /\ args.limit = retrievalCeiling
                /\ "embedding" \in DOMAIN args.filters
                /\ args.filters.embedding = "$notNull"
                /\ \A f \in DOMAIN CallerFilters \ {"embedding"} :
                      f \in DOMAIN args.filters /\ args.filters[f] = CallerFilters[f]
                /\ \A d \in 1..Len(found) : found[d].embedding # None

---------------------------------------------------------------------------
(* Properties of the statistics *)

\* the statistics of one collection were asked for and returned
StatsReturned ==
    /\ IsHandler("getStats")
    /\ ApiBody.contentType # None
    /\ Get(apiResponse).status = 200

\* the entry of the collection asked for, and the documents of the collection
StatsOf == ApiData[Get(ApiBody.contentType)]
Counted == store[Get(ApiBody.contentType)]

\* the documents of the collection that hold a vector
WithVector == {k \in 1..Len(Counted) : Counted[k].embedding # None}

\* the number of hundredths a text "<digits>.<digit><digit>%" stands for,
\* -1 if the text has another form
HundredthsIn(text) ==
    LET n == Len(text)
    IN  IF /\ n >= 5
           /\ text[n] = "%"
           /\ text[n - 3] = "."
           /\ \A k \in (1..(n - 4)) \cup {n - 2, n - 1} : IsDigit(text[k])
           /\ (n > 5 => text[1] # "0")
        THEN 100 * digitsValue(SubSeq(text, 1, n - 4), 0)
                 + digitsValue(SubSeq(text, n - 2, n - 1), 0)
        ELSE -1

\* C23: the statistics of a collection hold the number of its documents, the
\* number of those with a vector, and as coverage their ratio in percent
\* written with two decimals (within half a hundredth of the exact ratio,
\* "70.00%" for 7 of 10); for an empty collection the coverage is a defined
\* text and nothing is divided
C23_StatsCoverage ==
    StatsReturned =>
        /\ DOMAIN ApiData = {Get(ApiBody.contentType)}
        /\ StatsOf.total = Len(Counted)
        /\ StatsOf.withEmbeddings = Cardinality(WithVector)
        /\ IF Len(Counted) = 0
           THEN StatsOf.coverage = <<"0", "%">>
           ELSE /\ HundredthsIn(StatsOf.coverage) >= 0
                /\ 2 * Abs(HundredthsIn(StatsOf.coverage) * Len(Counted)
                             - 10000 * Cardinality(WithVector)) <= Len(Counted)
        /\ (Len(Counted) = 10 /\ Cardinality(WithVector) = 7) =>
              StatsOf.coverage = <<"7", "0", ".", "0", "0", "%">>

\* C23 witness: the statistics of a collection of 3 documents, 2 of them with
\* a vector, were returned with the coverage "66.67%"
C23_Witness ==
    /\ StatsReturned
    /\ Len(Counted) = 3
    /\ Cardinality(WithVector) = 2
    /\ StatsOf.coverage = <<"6", "6", ".", "6", "7", "%">>

---------------------------------------------------------------------------
(* Properties of the aggregation *)

\* every collection of the multi search was searched successfully and the
\* aggregated response was given
AllSearched ==
    /\ IsMultiSearch
    /\ Aggregates
    /\ response # None
    /\ ~Get(response).threw
    /\ \A i \in 1..Len(settled) : Succeeded(i)

\* the candidates of collection i with a score of at least the threshold, in
\* the store's order, as the response shows them (tagged, without vectors
\* unless asked for)
EligibleOf(i) ==
    LET contentType == Get(call).contentTypes[i]
        opts == searchOptionsOf(OptionsOf(i))
        eligible ==
            filterResults(
                mapDocuments(Get(Get(Get(embedded[i]).value).embedding),
                             findMany(store[contentType], findManyArgs(opts))),
                opts.threshold)
    IN  [k \in 1..Len(eligible) |->
            tagResult(cleanResult(eligible[k], opts.includeEmbedding), contentType)]

\* the first `limit` elements of the union of the eligible candidates of all
\* collections, by descending score
GlobalTop ==
    LET union == sortByScore(Flatten([i \in 1..Len(settled) |-> EligibleOf(i)]))
        wanted == IF GlobalLimit < 0 THEN 0 ELSE GlobalLimit
    IN  SubSeq(union, 1, IF wanted > Len(union) THEN Len(union) ELSE wanted)

\* C25: when every collection is searched successfully, the aggregated list
\* is the first `limit` elements of the union of all collections' candidates
\* with a score of at least the threshold, by descending score
C25_GlobalTopK == AllSearched => Body.results = GlobalTop

---------------------------------------------------------------------------
(* Properties of the groups of generateBatchEmbeddings *)

\* the items of the current group whose provider request is in flight
InFlight == {k \in 1..Len(items) : Pending(items[k])}

\* every item of the current group has completed successfully
GroupCompleted ==
    \A k \in 1..Len(items) :
        items[k].outcome # None /\ ~Get(items[k].outcome).threw

\* the call waits between two groups
Delaying == IsBatch /\ embedResponse = None /\ GroupCompleted

\* the groups of a batch in each state: at most batchSize requests in flight,
\* all of the current group; every request issued so far is of the current
\* group or of an earlier one, the results of every earlier group are pushed,
\* and the call waits for the delay only when a group is left
GroupsInTurn ==
    IsBatch =>
        /\ Len(items) <= batchSize
        /\ Cardinality(InFlight) <= batchSize
        /\ Len(requests) <= groupStart + Len(items)
        /\ groupStart > 0 => Len(batchResults) >= groupStart
        /\ Delaying => groupStart + batchSize < Len(Texts)
        /\ (GroupCompleted /\ Len(items) > 0 /\ groupStart + batchSize >= Len(Texts)) =>
              embedResponse = Some(Return(batchResults))

\* a step of a batch that issues provider requests starts from a state where
\* the call waited between two groups, and issues those of the next group
NextGroupAfterDelay ==
    (IsBatch /\ embedCall' = embedCall /\ Len(requests') > Len(requests)) =>
        /\ Delaying
        /\ Len(batchResults) = groupStart + Len(items)
        /\ groupStart' = groupStart + batchSize
        /\ Len(requests') <= Len(requests) + batchSize

\* C26: generateBatchEmbeddings processes its groups of 10 one after the
\* other: the requests of a group are issued only when every request of the
\* group before has completed successfully and the delay has elapsed, at
\* most 10 requests are in flight, and the call does not wait after its last
\* group
C26_GroupsSequential ==
    /\ []GroupsInTurn
    /\ [][NextGroupAfterDelay]_vars

\* C26 witness: a batch of 11 texts has issued the request of its second
\* group after the ten results of the first were pushed
C26_Witness ==
    /\ IsBatch
    /\ Len(Texts) = 11
    /\ groupStart = batchSize
    /\ Len(batchResults) = batchSize
    /\ Len(requests) = 11
    /\ Cardinality(InFlight) = 1

---------------------------------------------------------------------------
(* Properties of the payload the write hook leaves *)

\* the payload of the event, the payload the hook leaves, and the result of
\* the hook's generateEmbedding call
EventData == Get(Get(hookEvent).data)
WrittenData == Get(hookData)
EmbeddingResult == Get(Get(hookEmbedded).value)

VectorFields == {"embedding", "embeddingMetadata"}

\* C28: when the hook has obtained an embedding, the payload holds the vector
\* and the metadata of this call together: the vector of the result, its
\* length as dimensions, the processed text and the two lengths of this call,
\* and no field of metadata the payload held before; every other field of
\* the payload is as the event held it
C28_VectorAndMetadataTogether ==
    (hookEvent # None /\ EmbeddingObtained) =>
        /\ hookPc = "returned"
        /\ DOMAIN WrittenData = DOMAIN EventData \cup VectorFields
        /\ WrittenData.embedding = Get(EmbeddingResult.embedding)
        /\ DOMAIN WrittenData.embeddingMetadata =
              {"model", "generatedAt", "dimensions", "processedText",
               "originalLength", "processedLength"}
        /\ WrittenData.embeddingMetadata.generatedAt \in Timestamps
        /\ WrittenData.embeddingMetadata.dimensions = Len(WrittenData.embedding)
        /\ WrittenData.embeddingMetadata.processedText =
              preprocessText(Get(Extracted.value))
        /\ WrittenData.embeddingMetadata.processedText = hookRequests[1]
        /\ WrittenData.embeddingMetadata.originalLength = Len(Get(Extracted.value))
        /\ WrittenData.embeddingMetadata.processedLength =
              Len(preprocessText(Get(Extracted.value)))
        /\ \A f \in DOMAIN EventData \ VectorFields : WrittenData[f] = EventData[f]

\* C28 witness: a payload that held a vector of length 3 and its metadata
\* was given the vector of length 2 the provider answered with
C28_Witness ==
    /\ hookEvent # None
    /\ EmbeddingObtained
    /\ "embedding" \in DOMAIN EventData
    /\ EventData.embedding = <<5, 5, 5>>
    /\ WrittenData.embedding = <<1, 0>>
    /\ WrittenData.embeddingMetadata.dimensions = 2

---------------------------------------------------------------------------
(* Properties of the provider requests of one embedding *)

\* a call issues at most one provider request for each text it embeds: the
\* generateEmbedding call of the hook, a generateEmbedding call from outside
AtMostOneRequest ==
    /\ Len(hookEmbedCalls) <= 1
    /\ Len(hookRequests) <= Len(hookEmbedCalls)
    /\ IsEmbed => Len(requests) <= 1

\* a failure of the provider reaches the caller of generateEmbedding as the
\* error of the taxonomy, and the hook ends there
FailureSurfaces ==
    /\ (hookEmbedded # None /\ Get(hookEmbedded).threw) => hookPc = "returned"
    /\ (IsEmbed /\ Len(requests) = 1 /\ items[1].answer # None
           /\ Get(items[1].answer).threw)
       => embedResponse =
              Some(Throw(mapProviderError(Get(Get(items[1].answer).error))))

\* once the hook has made its generateEmbedding call, and once a call from
\* outside has issued its request, no step issues a further request for it
NoFurtherRequest ==
    /\ hookEvent # None => (hookRequests' = hookRequests /\ hookEmbedCalls' = hookEmbedCalls)
    /\ (IsEmbed /\ embedCall' = embedCall) => requests' = requests

---------------------------------------------------------------------------
(* Properties of the reproducibility of multiContentTypeSearch *)

\* the settlement of sub-search i as the query, its collection, the options,
\* the outcome of its embedding and the store determine it (the error of the
\* store when its findMany call failed)
DeterminedOutcome(i) ==
    LET c == Get(call)
        begun == beginSearch(c.query, c.contentTypes[i])
    IN  IF begun.settled # None THEN Get(begun.settled)
        ELSE IF afterEmbedding(Get(embedded[i])).settles
        THEN afterEmbedding(Get(embedded[i])).outcome
        ELSE IF Failed(i) THEN Get(settled[i])
        ELSE afterFindMany(c.query, c.contentTypes[i], OptionsOf(i),
                           Get(Get(embedded[i]).value),
                           Return(findMany(store[c.contentTypes[i]],
                                           findManyArgs(searchOptionsOf(OptionsOf(i))))))

\* the response the inputs of the call determine
DeterminedResponse ==
    LET c == Get(call)
    IN  afterPromiseAll(c.query, c.contentTypes, c.options,
            [i \in 1..Len(c.contentTypes) |->
                subSearchCatch(c.query, c.contentTypes[i], DeterminedOutcome(i))])

\* the place of a result of the aggregated list: the index of its collection
\* in the request, and its position in the block of that collection
CollectionIndex(result) ==
    CHOOSE i \in 1..Len(Get(call).contentTypes) :
        Get(call).contentTypes[i] = result.contentType
PositionInBlock(result) ==
    CHOOSE k \in 1..Len(Block(CollectionIndex(result)).results) :
        Block(CollectionIndex(result)).results[k].documentId = result.documentId

\* the collections of the call are pairwise different
DistinctCollections ==
    \A i, j \in 1..Len(Get(call).contentTypes) :
        Get(call).contentTypes[i] = Get(call).contentTypes[j] => i = j

\* the aggregated list is in descending order of score, results of equal
\* score in the order of the collections of the request, then in the order
\* of their block
TiesInRequestOrder ==
    \A m, n \in 1..Len(Body.results) :
        m < n =>
            \/ ScoreGT(Body.results[m].similarityScore, Body.results[n].similarityScore)
            \/ /\ ScoreEQ(Body.results[m].similarityScore,
                          Body.results[n].similarityScore)
               /\ \/ CollectionIndex(Body.results[m]) < CollectionIndex(Body.results[n])
                  \/ /\ CollectionIndex(Body.results[m]) = CollectionIndex(Body.results[n])
                     /\ PositionInBlock(Body.results[m]) < PositionInBlock(Body.results[n])

\* C30: the response of multiContentTypeSearch is the one its query, its
\* collections, its options, the outcomes of the embeddings and the contents
\* of the store determine, in whatever order the sub-searches complete, and
\* the aggregated list breaks ties by the order of the collections in the
\* request, then by the order within the collection
C30_Reproducible ==
    (IsMultiSearch /\ response # None) =>
        /\ Get(response) = DeterminedResponse
        /\ (~Get(response).threw /\ Aggregates /\ DistinctCollections) =>
              TiesInRequestOrder

\* C30 witness: the second sub-search of an aggregated multi search was
\* answered by the provider before the first, and the list of the response
\* holds results of equal score of both collections
C30_Witness ==
    /\ IsMultiSearch
    /\ response # None
    /\ ~Get(response).threw
    /\ Aggregates
    /\ DistinctCollections
    /\ Len(findManyCalls) = 2
    /\ findManyCalls[1].search = 2
    /\ \E m, n \in 1..Len(Body.results) :
          /\ m < n
          /\ Body.results[m].contentType # Body.results[n].contentType
          /\ ScoreEQ(Body.results[m].similarityScore, Body.results[n].similarityScore)

====
